---- MODULE Spec2Model ----
(***************************************************************************)
(* Stratix10 SoC FPGA manager (drivers/fpga/stratix10-soc.c).              *)
(*                                                                         *)
(* The model follows the three fpga_manager_ops entry points               *)
(* s10_ops_write_init, s10_ops_write and s10_ops_write_complete statement  *)
(* by statement at every access to state shared with the notification      *)
(* context (priv->status, the buffer lock bits, the completion), and the   *)
(* receive callback s10_receive_callback in its three phases (set bits,    *)
(* unlock returned buffers, complete).  The service layer and the remote   *)
(* are the environment: a send is accepted or rejected, an accepted        *)
(* request is answered at any later time with a status word, or never.     *)
(***************************************************************************)
EXTENDS Integers, Sequences, FiniteSets, TLC

(* ------------------------------------------------------------------ *)
(* Program constants                                                    *)
(* ------------------------------------------------------------------ *)

NUM_SVC_BUFS == 4

INVALID_FIRMWARE_VERSION == 65535

(* Indices of the buffer array svc_bufs[NUM_SVC_BUFS]. *)
Bufs == 0 .. (NUM_SVC_BUFS - 1)

(* ------------------------------------------------------------------ *)
(* Bounds of the model                                                  *)
(* ------------------------------------------------------------------ *)

(* SVC_BUF_SIZE is SZ_512K in the driver; the model counts in units so  *)
(* that an input of NUM_SVC_BUFS buffers plus one byte stays small.     *)
SVC_BUF_SIZE == 2

(* S10_RECONFIG_TIMEOUT in jiffies. *)
S10_RECONFIG_TIMEOUT == 2

(* Requests the service layer still holds unanswered (beyond this the   *)
(* oldest is never answered).                                           *)
MaxInflight == 1

(* Longest image handed to one s10_ops_write call. *)
MaxCount == NUM_SVC_BUFS * SVC_BUF_SIZE + 1

(* Image lengths handed to s10_ops_write: empty, one byte, up to one    *)
(* byte past one buffer, one buffer less than the pool, and the last    *)
(* three up to one byte past the whole pool.                            *)
Lengths == (0 .. (SVC_BUF_SIZE + 1))
             \cup { (NUM_SVC_BUFS - 1) * SVC_BUF_SIZE }
             \cup ((MaxCount - 2) .. MaxCount)

(* Jiffies of waiting that s10_ops_write_complete's account keeps apart; *)
(* any longer wait counts as this much.                                 *)
MaxWaited == S10_RECONFIG_TIMEOUT + 1

(* ------------------------------------------------------------------ *)
(* Kernel and service-layer names used by the driver                    *)
(* ------------------------------------------------------------------ *)

(* errno values returned negated by the driver. *)
Errno == [EINVAL |-> 22, EFAULT |-> 14, ETIMEDOUT |-> 110,
          ENOBUFS |-> 105, ENOMEM |-> 12]

(* Status bits in ascending bit order; the callback copies the bits up  *)
(* to and including SVC_STATUS_ERROR.                                   *)
StatusOrder == << "OK", "BUFFER_SUBMITTED", "BUFFER_DONE", "COMPLETED",
                  "ERROR", "NO_SUPPORT" >>

StatusBits == { StatusOrder[k] : k \in 1 .. Len(StatusOrder) }

BitIndex(b) == CHOOSE k \in 1 .. Len(StatusOrder) : StatusOrder[k] = b

(* fpga_image_info flag bits the caller may pass. *)
InfoFlagBits == { "FPGA_MGR_PARTIAL_RECONFIG", "FPGA_MGR_BITSTREAM_AUTHENTICATE",
                  "FPGA_MGR_EXTERNAL_CONFIG" }

(* priv->fw_version after s10_probe: the sentinel, or the version the    *)
(* firmware reported.                                                   *)
FwVersions == { INVALID_FIRMWARE_VERSION, 1 }

(* Results of stratix10_svc_send: accepted, queue full, other failure. *)
SvcSendResults == { 0, -Errno.ENOBUFS, -Errno.ENOMEM }

(* Status words a notification may carry. *)
NotifyWords == { {"OK"}, {"BUFFER_SUBMITTED"}, {"BUFFER_DONE"}, {"COMPLETED"},
                 {"ERROR"}, {"NO_SUPPORT"},
                 {"BUFFER_DONE", "BUFFER_SUBMITTED"}, {"BUFFER_DONE", "ERROR"} }

(* Values of a kaddr slot of stratix10_svc_cb_data: NULL, the address   *)
(* of the memory of buffer b, or an address that is no buffer's.        *)
NullHandle == [ kind |-> "null", index |-> 0 ]

BufHandle(b) == [ kind |-> "buf", index |-> b ]

UnknownHandle == [ kind |-> "unknown", index |-> 0 ]

Handles == { NullHandle, UnknownHandle } \cup { BufHandle(b) : b \in Bufs }

(* data->kaddr1 .. kaddr4 as the service layer may fill them: any       *)
(* address in the first slot, NULL or the first buffer in the second    *)
(* (so that an address can come twice), NULL or one buffer in the third *)
(* and fourth.                                                          *)
KaddrTuples ==
  { << a, b, c, d >> :
      a \in Handles,
      b \in { NullHandle, BufHandle(0) },
      c \in { NullHandle, BufHandle(NUM_SVC_BUFS - 2) },
      d \in { NullHandle, BufHandle(NUM_SVC_BUFS - 1) } }

NoData == [ status |-> {},
            kaddr |-> << NullHandle, NullHandle, NullHandle, NullHandle >> ]

(* struct stratix10_svc_cb_data as the callback reads it.  The callback *)
(* reads the kaddr slots only under SVC_STATUS_BUFFER_DONE; for the     *)
(* other status words two fillings are followed, no address and the     *)
(* addresses of the first and the last buffer.                          *)
CbData ==
  { d \in [ status : NotifyWords, kaddr : KaddrTuples ] :
      "BUFFER_DONE" \notin d.status
        => d.kaddr \in { NoData.kaddr,
                         << BufHandle(0), NullHandle, NullHandle,
                            BufHandle(NUM_SVC_BUFS - 1) >> } }

(* Notifications followed through the callback. *)
MaxNotifications == 2

VARIABLES
  pc,            \* position of the pump (the caller's thread)
  phase,         \* the entry point running, or how the last one ended
  info_flags,    \* info->flags of the running s10_ops_write_init
  ctype_flags,   \* ctype.flags built by s10_ops_write_init
  fw_version,    \* priv->fw_version
  status,        \* priv->status, as the set of bits that are set
  lock,          \* svc_bufs[i].lock bit SVC_BUF_LOCK
  done,          \* status_return_completion.done
  count,         \* bytes of the image not yet handed to a buffer
  off,           \* buf cursor, as an offset into the image
  i,             \* loop index of s10_send_buf
  ret,           \* ret of the running / last entry point
  sent,          \* sent of s10_ops_write (the result of s10_send_buf)
  wait_status,   \* wait_status of s10_ops_write
  timeout,       \* timeout of s10_ops_write_complete
  msg,           \* the message last handed to stratix10_svc_send
  outstanding,   \* accepted requests the remote has not answered
  cb,            \* position of the running receive callback, or CbIdle
  svc_done_calls,\* stratix10_svc_done calls made in the session so far
  consumedCompleted, \* the running write_complete cleared SVC_STATUS_COMPLETED
  awaiting,      \* a request was accepted and its wait has not returned
  total,         \* length of the image given to the running s10_ops_write
  subs,          \* accepted data submissions of the running s10_ops_write
  allBufferDone, \* every wait of s10_ops_write so far in the session was
                 \* signaled and found SVC_STATUS_BUFFER_DONE set
  waited,        \* jiffies the running s10_ops_write_complete spent waiting
  data,          \* *data of the running / last s10_receive_callback
  answered,      \* *data of the callbacks that returned before that one
  svc_buf,       \* svc_bufs[i].buf is not NULL
  dma_mapped,    \* svc_bufs[i].dma_addr holds a live DMA mapping
  is_smmu_enabled, \* priv->is_smmu_enabled
  ops,           \* pool operations made so far, each with the pool before
                 \* and after it
  snap,          \* the pool when the running entry point or pool
                 \* operation was called
  other,         \* saved pc, i and sent of the thread that is not running
  cur,           \* the thread that is running
  fb_i,          \* loop index of s10_free_buffers
  num_free,      \* num_free of s10_free_buffers
  claimed,       \* per buffer, the claimers whose test_and_set_bit_lock
                 \* found the bit clear and who still hold the buffer
  freed,         \* per buffer, the stratix10_svc_free_memory calls made
                 \* with its address so far
  rm_i,          \* loop index of s10_remove
  rec,           \* the history this specification keeps: "none", "cmds",
                 \* "held", "delivered" or "awaited"
  cmds,          \* the commands the channel accepted in the session so
                 \* far, a run of the same command once
  held,          \* the buffers handed to the remote by an accepted
                 \* COMMAND_RECONFIG_DATA_SUBMIT and not given back yet
  delivered,     \* SVC_STATUS_COMPLETED / SVC_STATUS_ERROR bits of the
                 \* notifications delivered while the running entry
                 \* point ran ("delivered") or was in a wait ("awaited")
  obtained       \* per buffer, the stratix10_svc_allocate_memory calls
                 \* that returned its memory

vars == << pc, phase, info_flags, ctype_flags, fw_version, status, lock, done,
           count, off, i, ret, sent, wait_status, timeout, msg, outstanding,
           cb, svc_done_calls, consumedCompleted,
           awaiting, total, subs, allBufferDone, waited,
           data, answered, svc_buf, dma_mapped, is_smmu_enabled, ops, snap,
           other, cur, fb_i, num_free, claimed, freed, rm_i,
           rec, cmds, held, delivered, obtained >>

(* Groups left alone by most steps. *)
pumpLocals == << info_flags, ctype_flags, count, off, i, sent, wait_status,
                 timeout, total >>
envVars == << outstanding, cb >>
histVars == << svc_done_calls, consumedCompleted, awaiting,
               subs >>

(* State read and written only by the pool, callback and race          *)
(* specifications below.                                                *)
poolVars == << svc_buf, dma_mapped, is_smmu_enabled >>
raceVars == << other, cur, fb_i, num_free, claimed >>
tearVars == << freed, rm_i >>
recVars == << rec, cmds, held, delivered, obtained >>
auxRest == << data, answered, svc_buf, is_smmu_enabled, ops, raceVars,
              tearVars, rec, obtained >>
auxVars == << auxRest, dma_mapped, snap, cmds, held, delivered >>

CbIdle == "idle"

(* The buffer pool as one value. *)
Pool == [ lock |-> lock, svc_buf |-> svc_buf, dma_mapped |-> dma_mapped ]

(* The pool after s10_probe allocated every buffer (l.495-505). *)
ProbedPool == [ lock |-> [ b \in Bufs |-> FALSE ],
                svc_buf |-> [ b \in Bufs |-> TRUE ],
                dma_mapped |-> [ b \in Bufs |-> FALSE ] ]

Threads == { "t1", "t2" }

(* The state outside the entry points and the callback, as s10_probe    *)
(* leaves it on a system without SMMU, with history h kept.             *)
AuxInitKeeping(h) ==
  /\ data = NoData
  /\ answered = {}
  /\ svc_buf = ProbedPool.svc_buf
  /\ dma_mapped = ProbedPool.dma_mapped
  /\ is_smmu_enabled = FALSE
  /\ ops = << >>
  /\ snap = ProbedPool
  /\ other = [ pc |-> "idle", i |-> 0, sent |-> 0 ]
  /\ cur = "t1"
  /\ fb_i = NUM_SVC_BUFS
  /\ num_free = 0
  /\ claimed = [ b \in Bufs |-> {} ]
  /\ freed = [ b \in Bufs |-> 0 ]
  /\ rm_i = NUM_SVC_BUFS
  /\ rec = h
  /\ cmds = << >>
  /\ held = {}
  /\ delivered = {}
  /\ obtained = [ b \in Bufs |-> IF svc_buf[b] THEN 1 ELSE 0 ]

AuxInit == AuxInitKeeping("none")

NoMsg == [ command |-> "none", flags |-> {}, payload_length |-> 0 ]

(* The driver after s10_probe: no entry point running, no request      *)
(* outstanding.                                                         *)
PumpInit ==
  /\ pc = "idle"
  /\ phase = "none"
  /\ info_flags = {}
  /\ ctype_flags = {}
  /\ fw_version \in FwVersions
  /\ status = {}
  /\ lock = [ b \in Bufs |-> FALSE ]
  /\ done = 0
  /\ count = 0
  /\ off = 0
  /\ i = 0
  /\ ret = 0
  /\ sent = 0
  /\ wait_status = 0
  /\ timeout = 0
  /\ msg = NoMsg
  /\ outstanding = 0
  /\ cb = CbIdle
  /\ svc_done_calls = 0
  /\ consumedCompleted = FALSE
  /\ awaiting = FALSE
  /\ total = 0
  /\ subs = << >>
  /\ allBufferDone = TRUE
  /\ waited = 0

Init == PumpInit /\ AuxInit

(* ------------------------------------------------------------------ *)
(* Service layer as seen by the driver                                  *)
(* ------------------------------------------------------------------ *)

(* s10_svc_send_msg returning r: the message is built and handed to     *)
(* stratix10_svc_send; an accepted request is outstanding at the remote *)
(* (beyond MaxInflight the oldest is never answered).                   *)
s10_svc_send_msg(command, fl, payload_length, r) ==
  /\ msg' = [ command |-> command, flags |-> fl,
              payload_length |-> payload_length ]
  /\ outstanding' = IF r = 0 /\ outstanding < MaxInflight
                    THEN outstanding + 1 ELSE outstanding
  /\ awaiting' = (awaiting \/ r = 0)
  /\ cmds' = IF /\ rec = "cmds"
                /\ r = 0
                /\ (cmds = << >> \/ cmds[Len(cmds)] # command)
             THEN Append(cmds, command)
             ELSE cmds

(* An entry point returns r to the fpga-mgr core; its locals die. *)
Return(r, ph) ==
  /\ pc' = "idle"
  /\ ret' = r
  /\ phase' = ph
  /\ info_flags' = {}
  /\ ctype_flags' = {}
  /\ count' = 0
  /\ off' = 0
  /\ i' = 0
  /\ sent' = 0
  /\ wait_status' = 0
  /\ timeout' = 0
  /\ msg' = NoMsg

(* The entry point goes on to position p with its locals as they are. *)
Goto(p) ==
  /\ pc' = p
  /\ UNCHANGED << phase, pumpLocals, msg >>

(* ------------------------------------------------------------------ *)
(* The fpga-mgr core calling the three entry points in order            *)
(* ------------------------------------------------------------------ *)

CallWriteInit ==
  /\ pc = "idle"
  /\ \E f \in SUBSET InfoFlagBits : info_flags' = f
  /\ pc' = "wi_flags"
  /\ phase' = "write_init"
  /\ ret' = 0
  /\ svc_done_calls' = 0
  /\ allBufferDone' = TRUE
  /\ consumedCompleted' = FALSE
  /\ subs' = << >>
  /\ total' = 0
  /\ UNCHANGED << ctype_flags, fw_version, status, lock, done, count, off, i,
                  sent, wait_status, timeout, msg, envVars, awaiting >>
  /\ UNCHANGED waited
  /\ cmds' = << >>
  /\ delivered' = {}
  /\ UNCHANGED << auxRest, dma_mapped, snap, held >>

CallWrite ==
  /\ pc = "idle"
  /\ phase \in { "write_init_ok", "write_ok" }
  /\ \E n \in Lengths : count' = n /\ total' = n
  /\ pc' = "w_reinit"
  /\ phase' = "write"
  /\ ret' = 0
  /\ subs' = << >>
  /\ UNCHANGED << info_flags, ctype_flags, fw_version, status, lock, done, off,
                  i, sent, wait_status, timeout, msg, envVars, svc_done_calls,
                  consumedCompleted, awaiting >>
  /\ UNCHANGED << allBufferDone, waited >>
  /\ delivered' = {}
  /\ UNCHANGED << auxRest, dma_mapped, snap, cmds, held >>

CallWriteComplete ==
  /\ pc = "idle"
  /\ phase = "write_ok"
  /\ timeout' = S10_RECONFIG_TIMEOUT
  /\ pc' = "wc_reinit"
  /\ phase' = "write_complete"
  /\ ret' = 0
  /\ consumedCompleted' = FALSE
  /\ subs' = << >>
  /\ total' = 0
  /\ UNCHANGED << info_flags, ctype_flags, fw_version, status, lock, done,
                  count, off, i, sent, wait_status, msg, envVars,
                  svc_done_calls, awaiting >>
  /\ UNCHANGED << allBufferDone, waited >>
  /\ delivered' = {}
  /\ UNCHANGED << auxRest, dma_mapped, snap, cmds, held >>

(* ------------------------------------------------------------------ *)
(* s10_ops_write_init                                                   *)
(* ------------------------------------------------------------------ *)

(* s10_ops_write_init's flag handling without the firmware-version     *)
(* test: authentication always goes on to the request.                 *)
s10_ops_write_init_flags_no_version_test ==
  /\ pc = "wi_flags"
  /\ ctype_flags' =
       IF "FPGA_MGR_PARTIAL_RECONFIG" \in info_flags
       THEN { "COMMAND_RECONFIG_FLAG_PARTIAL" }
       ELSE IF "FPGA_MGR_BITSTREAM_AUTHENTICATE" \in info_flags
       THEN { "COMMAND_AUTHENTICATE_BITSTREAM" }
       ELSE {}
  /\ pc' = "wi_reinit"
  /\ UNCHANGED << phase, ret, info_flags, count, off, i, sent, wait_status,
                  timeout, msg >>
  /\ UNCHANGED << fw_version, status, lock, done, total, envVars, histVars >>
  /\ UNCHANGED << allBufferDone, waited >>
  /\ UNCHANGED auxVars

(* s10_ops_write_init's flag handling with two independent ifs instead *)
(* of if / else if: each requested mode adds its bit.                  *)
s10_ops_write_init_flags_independent ==
  /\ pc = "wi_flags"
  /\ IF /\ "FPGA_MGR_BITSTREAM_AUTHENTICATE" \in info_flags
        /\ "FPGA_MGR_PARTIAL_RECONFIG" \notin info_flags
        /\ fw_version = INVALID_FIRMWARE_VERSION
     THEN Return(-Errno.EINVAL, "write_init_failed")
     ELSE /\ ctype_flags' =
               (IF "FPGA_MGR_PARTIAL_RECONFIG" \in info_flags
                THEN { "COMMAND_RECONFIG_FLAG_PARTIAL" } ELSE {})
               \cup
               (IF "FPGA_MGR_BITSTREAM_AUTHENTICATE" \in info_flags
                THEN { "COMMAND_AUTHENTICATE_BITSTREAM" } ELSE {})
          /\ pc' = "wi_reinit"
          /\ UNCHANGED << phase, ret, info_flags, count, off, i, sent,
                          wait_status, timeout, msg >>
  /\ UNCHANGED << fw_version, status, lock, done, total, envVars, histVars >>
  /\ UNCHANGED << allBufferDone, waited >>
  /\ UNCHANGED auxVars

(* ctype.flags from info->flags, or the early return. *)
s10_ops_write_init_flags ==
  /\ pc = "wi_flags"
  /\ IF "FPGA_MGR_PARTIAL_RECONFIG" \in info_flags
     THEN /\ ctype_flags' = { "COMMAND_RECONFIG_FLAG_PARTIAL" }
          /\ pc' = "wi_reinit"
          /\ UNCHANGED << phase, ret, info_flags, count, off, i, sent,
                          wait_status, timeout, msg >>
     ELSE IF "FPGA_MGR_BITSTREAM_AUTHENTICATE" \in info_flags
     THEN IF fw_version = INVALID_FIRMWARE_VERSION
          THEN Return(-Errno.EINVAL, "write_init_failed")
          ELSE /\ ctype_flags' = { "COMMAND_AUTHENTICATE_BITSTREAM" }
               /\ pc' = "wi_reinit"
               /\ UNCHANGED << phase, ret, info_flags, count, off, i, sent,
                               wait_status, timeout, msg >>
     ELSE /\ ctype_flags' = {}
          /\ pc' = "wi_reinit"
          /\ UNCHANGED << phase, ret, info_flags, count, off, i, sent,
                          wait_status, timeout, msg >>
  /\ UNCHANGED << fw_version, status, lock, done, total, envVars, histVars >>
  /\ UNCHANGED << allBufferDone, waited >>
  /\ UNCHANGED auxVars

(* reinit_completion *)
s10_ops_write_init_reinit ==
  /\ pc = "wi_reinit"
  /\ done' = 0
  /\ Goto("wi_send")
  /\ UNCHANGED << fw_version, status, lock, ret, envVars, histVars >>
  /\ UNCHANGED << allBufferDone, waited >>
  /\ UNCHANGED auxVars

s10_ops_write_init_send ==
  /\ pc = "wi_send"
  /\ \E r \in SvcSendResults :
       /\ s10_svc_send_msg("COMMAND_RECONFIG", ctype_flags, 1, r)
       /\ ret' = r
       /\ pc' = IF r < 0 THEN "wi_done" ELSE "wi_wait"
  /\ info_flags' = {}
  /\ UNCHANGED << phase, fw_version, status, lock, done, ctype_flags, count,
                  off, i, sent, wait_status, timeout, total, cb,
                  svc_done_calls, consumedCompleted, subs >>
  /\ UNCHANGED << allBufferDone, waited >>
  /\ UNCHANGED << auxRest, dma_mapped, snap, held, delivered >>

(* wait_for_completion_timeout; the message and ctype are not read     *)
(* again.                                                               *)
s10_ops_write_init_wait ==
  /\ pc = "wi_wait"
  /\ IF done > 0
     THEN /\ done' = done - 1
          /\ ret' = 0
          /\ pc' = "wi_test_ok"
     ELSE /\ ret' = -Errno.ETIMEDOUT
          /\ pc' = "wi_done"
          /\ UNCHANGED done
  /\ awaiting' = FALSE
  /\ msg' = NoMsg
  /\ ctype_flags' = {}
  /\ UNCHANGED << phase, info_flags, count, off, i, sent, wait_status,
                  timeout, total >>
  /\ UNCHANGED << fw_version, status, lock, envVars, svc_done_calls,
                  consumedCompleted, subs >>
  /\ UNCHANGED << allBufferDone, waited >>
  /\ UNCHANGED auxVars

(* s10_ops_write_init without the test of SVC_STATUS_OK: a signaled    *)
(* wait is taken for the acknowledgement whatever the status holds.    *)
s10_ops_write_init_test_ok_no_test ==
  /\ pc = "wi_test_ok"
  /\ status' = status \ { "OK" }
  /\ Goto("wi_locks")
  /\ UNCHANGED ret
  /\ UNCHANGED << fw_version, lock, done, envVars, histVars >>
  /\ UNCHANGED << allBufferDone, waited >>
  /\ UNCHANGED auxVars

(* ret = 0; test_and_clear_bit(SVC_STATUS_OK), else -ETIMEDOUT. *)
s10_ops_write_init_test_ok ==
  /\ pc = "wi_test_ok"
  /\ IF "OK" \in status
     THEN /\ status' = status \ { "OK" }
          /\ Goto("wi_locks")
          /\ UNCHANGED ret
     ELSE /\ ret' = -Errno.ETIMEDOUT
          /\ Goto("wi_done")
          /\ UNCHANGED status
  /\ UNCHANGED << fw_version, lock, done, envVars, histVars >>
  /\ UNCHANGED << allBufferDone, waited >>
  /\ UNCHANGED auxVars

(* The lock reset of s10_ops_write_init stopping after the first        *)
(* buffer.                                                              *)
s10_ops_write_init_locks_first_only ==
  /\ pc = "wi_locks"
  /\ lock' = [ lock EXCEPT ![0] = FALSE ]
  /\ Goto("wi_done")
  /\ UNCHANGED << fw_version, status, done, ret, envVars, histVars >>
  /\ UNCHANGED << allBufferDone, waited >>
  /\ UNCHANGED auxVars

(* s10_ops_write_init without the reset of the lock words. *)
s10_ops_write_init_locks_skipped ==
  /\ pc = "wi_locks"
  /\ Goto("wi_done")
  /\ UNCHANGED << fw_version, status, lock, done, ret, envVars, histVars >>
  /\ UNCHANGED << allBufferDone, waited >>
  /\ UNCHANGED auxVars

(* for (i = 0; i < NUM_SVC_BUFS; i++) priv->svc_bufs[i].lock = 0: the   *)
(* lock words are overwritten; no mapping is touched.                   *)
s10_ops_write_init_locks ==
  /\ pc = "wi_locks"
  /\ lock' = [ b \in Bufs |-> FALSE ]
  /\ Goto("wi_done")
  /\ UNCHANGED << fw_version, status, done, ret, envVars, histVars >>
  /\ UNCHANGED << allBufferDone, waited >>
  /\ UNCHANGED auxVars

(* init_done: stratix10_svc_done, return ret. *)
s10_ops_write_init_done ==
  /\ pc = "wi_done"
  /\ svc_done_calls' = svc_done_calls + 1
  /\ Return(ret, IF ret = 0 THEN "write_init_ok" ELSE "write_init_failed")
  /\ UNCHANGED << fw_version, status, lock, done, total, envVars,
                  consumedCompleted, awaiting, subs >>
  /\ UNCHANGED << allBufferDone, waited >>
  /\ UNCHANGED auxVars

(* ------------------------------------------------------------------ *)
(* s10_ops_write and s10_send_buf                                       *)
(* ------------------------------------------------------------------ *)

Min(a, b) == IF a < b THEN a ELSE b

Max(a, b) == IF a > b THEN a ELSE b

(* s10_get_unlocked_buffer_count *)
s10_get_unlocked_buffer_count == Cardinality({ b \in Bufs : ~lock[b] })

(* The top of the while loop without the test of count: s10_send_buf   *)
(* is called on every iteration.                                       *)
s10_ops_write_reinit_no_count_test ==
  /\ pc = "w_reinit"
  /\ done' = 0
  /\ pc' = "sb_scan"
  /\ i' = 0
  /\ sent' = 0
  /\ msg' = NoMsg
  /\ UNCHANGED << phase, info_flags, ctype_flags, fw_version, status, lock,
                  count, off, ret, wait_status, timeout, total, envVars,
                  histVars >>
  /\ UNCHANGED << allBufferDone, waited >>
  /\ UNCHANGED auxVars

(* Top of the while loop: reinit_completion, then the branch on count.  *)
(* The message and result of the last s10_send_buf are not read again.  *)
s10_ops_write_reinit ==
  /\ pc = "w_reinit"
  /\ done' = 0
  /\ pc' = IF count > 0 THEN "sb_scan" ELSE "w_count"
  /\ i' = 0
  /\ sent' = 0
  /\ msg' = NoMsg
  /\ UNCHANGED << phase, info_flags, ctype_flags, fw_version, status, lock,
                  count, off, ret, wait_status, timeout, total, envVars,
                  histVars >>
  /\ UNCHANGED << allBufferDone, waited >>
  /\ UNCHANGED auxVars

(* s10_send_buf's scan with set_bit in place of test_and_set_bit_lock:  *)
(* the first buffer is taken whether or not it is locked.               *)
s10_send_buf_scan_no_test ==
  /\ pc = "sb_scan"
  /\ lock' = [ lock EXCEPT ![i] = TRUE ]
  /\ pc' = "sb_send"
  /\ UNCHANGED << i, sent >>
  /\ UNCHANGED << phase, info_flags, ctype_flags, fw_version, status, done,
                  count, off, ret, wait_status, timeout, msg, total, envVars,
                  histVars >>
  /\ UNCHANGED << allBufferDone, waited >>
  /\ UNCHANGED auxVars

(* s10_send_buf: one test_and_set_bit_lock of the scan; past the last   *)
(* buffer it returns -ENOBUFS and s10_ops_write continues its loop.     *)
s10_send_buf_scan ==
  /\ pc = "sb_scan"
  /\ IF ~lock[i]
     THEN /\ lock' = [ lock EXCEPT ![i] = TRUE ]
          /\ pc' = "sb_send"
          /\ UNCHANGED << i, sent >>
     ELSE /\ UNCHANGED lock
          /\ IF i + 1 = NUM_SVC_BUFS
             THEN /\ sent' = -Errno.ENOBUFS
                  /\ pc' = "w_reinit"
                  /\ i' = 0
             ELSE /\ i' = i + 1
                  /\ pc' = "sb_scan"
                  /\ UNCHANGED sent
  /\ UNCHANGED << phase, info_flags, ctype_flags, fw_version, status, done,
                  count, off, ret, wait_status, timeout, msg, total, envVars,
                  histVars >>
  /\ UNCHANGED << allBufferDone, waited >>
  /\ UNCHANGED auxVars

(* A transfer size that ignores how many bytes are left. *)
XferSizeWholeBuffer(n) == SVC_BUF_SIZE

(* xfer_sz = count < SVC_BUF_SIZE ? count : SVC_BUF_SIZE *)
XferSize(n) == Min(n, SVC_BUF_SIZE)

(* s10_send_buf followed by "continue" even when the submit was        *)
(* accepted: the loop goes on without waiting for the notification.    *)
s10_send_buf_send_no_wait ==
  /\ pc = "sb_send"
  /\ LET xfer_sz == XferSize(count) IN
     \E r \in SvcSendResults :
       /\ s10_svc_send_msg("COMMAND_RECONFIG_DATA_SUBMIT", {}, xfer_sz, r)
       /\ IF r < 0
          THEN /\ lock' = [ lock EXCEPT ![i] = FALSE ]
               /\ sent' = r
               /\ UNCHANGED << count, off, subs >>
          ELSE /\ sent' = xfer_sz
               /\ count' = count - sent'
               /\ off' = off + sent'
               /\ subs' = Append(subs, << off, xfer_sz >>)
               /\ UNCHANGED lock
  /\ pc' = "w_reinit"
  /\ i' = 0
  /\ UNCHANGED << phase, info_flags, ctype_flags, fw_version, status, done,
                  ret, wait_status, timeout, total, cb, svc_done_calls,
                  consumedCompleted >>
  /\ UNCHANGED << allBufferDone, waited >>
  /\ dma_mapped' = IF is_smmu_enabled
                   THEN [ dma_mapped EXCEPT ![i] = TRUE ]
                   ELSE dma_mapped
  /\ held' = IF rec = "held" /\ sent' > 0 THEN held \cup { i } ELSE held
  /\ UNCHANGED << auxRest, snap, delivered >>

(* s10_ops_write advancing count and buf by the chunk size also when   *)
(* s10_send_buf returned an error.                                     *)
s10_send_buf_send_advances_on_error ==
  /\ pc = "sb_send"
  /\ LET xfer_sz == XferSize(count) IN
     \E r \in SvcSendResults :
       /\ s10_svc_send_msg("COMMAND_RECONFIG_DATA_SUBMIT", {}, xfer_sz, r)
       /\ count' = count - xfer_sz
       /\ off' = off + xfer_sz
       /\ IF r < 0
          THEN /\ lock' = [ lock EXCEPT ![i] = FALSE ]
               /\ sent' = r
               /\ pc' = "w_reinit"
               /\ UNCHANGED subs
          ELSE /\ sent' = xfer_sz
               /\ subs' = Append(subs, << off, xfer_sz >>)
               /\ pc' = "w_wait"
               /\ UNCHANGED lock
  /\ i' = 0
  /\ UNCHANGED << phase, info_flags, ctype_flags, fw_version, status, done,
                  ret, wait_status, timeout, total, cb, svc_done_calls,
                  consumedCompleted >>
  /\ UNCHANGED << allBufferDone, waited >>
  /\ dma_mapped' = IF is_smmu_enabled
                   THEN [ dma_mapped EXCEPT ![i] = TRUE ]
                   ELSE dma_mapped
  /\ held' = IF rec = "held" /\ sent' > 0 THEN held \cup { i } ELSE held
  /\ UNCHANGED << auxRest, snap, delivered >>

(* s10_send_buf after the claim: copy, dma_map_single when the SMMU is  *)
(* enabled, send COMMAND_RECONFIG_DATA_SUBMIT; on a send error          *)
(* clear_bit_unlock (the mapping is left as it is) and return the       *)
(* error, else return xfer_sz; s10_ops_write then advances count and    *)
(* buf, or continues.                                                   *)
s10_send_buf_send ==
  /\ pc = "sb_send"
  /\ LET xfer_sz == XferSize(count) IN
     \E r \in SvcSendResults :
       /\ s10_svc_send_msg("COMMAND_RECONFIG_DATA_SUBMIT", {}, xfer_sz, r)
       /\ IF r < 0
          THEN /\ lock' = [ lock EXCEPT ![i] = FALSE ]
               /\ sent' = r
               /\ pc' = "w_reinit"
               /\ UNCHANGED << count, off, subs >>
          ELSE /\ sent' = xfer_sz
               /\ count' = count - sent'
               /\ off' = off + sent'
               /\ subs' = Append(subs, << off, xfer_sz >>)
               /\ pc' = "w_wait"
               /\ UNCHANGED lock
  /\ i' = 0
  /\ UNCHANGED << phase, info_flags, ctype_flags, fw_version, status, done,
                  ret, wait_status, timeout, total, cb, svc_done_calls,
                  consumedCompleted >>
  /\ UNCHANGED << allBufferDone, waited >>
  /\ dma_mapped' = IF is_smmu_enabled
                   THEN [ dma_mapped EXCEPT ![i] = TRUE ]
                   ELSE dma_mapped
  /\ held' = IF rec = "held" /\ sent' > 0 THEN held \cup { i } ELSE held
  /\ UNCHANGED << auxRest, snap, delivered >>

(* count == 0 without the test of the unlocked buffer count. *)
s10_ops_write_count_no_test ==
  /\ pc = "w_count"
  /\ Return(0, "write_ok")
  /\ UNCHANGED << fw_version, status, lock, done, total, envVars, histVars >>
  /\ UNCHANGED << allBufferDone, waited >>
  /\ UNCHANGED auxVars

(* count == 0 with COMMAND_RECONFIG_DATA_CLAIM sent whatever the count  *)
(* of unlocked buffers.                                                *)
s10_ops_write_count_always_claims ==
  /\ pc = "w_count"
  /\ Goto("w_claim")
  /\ UNCHANGED ret
  /\ UNCHANGED << fw_version, status, lock, done, total, envVars, histVars >>
  /\ UNCHANGED << allBufferDone, waited >>
  /\ UNCHANGED auxVars

(* count == 0: return 0 when every buffer is unlocked. *)
s10_ops_write_count ==
  /\ pc = "w_count"
  /\ IF s10_get_unlocked_buffer_count = NUM_SVC_BUFS
     THEN Return(0, "write_ok")
     ELSE Goto("w_claim") /\ UNCHANGED ret
  /\ UNCHANGED << fw_version, status, lock, done, total, envVars, histVars >>
  /\ UNCHANGED << allBufferDone, waited >>
  /\ UNCHANGED auxVars

(* The COMMAND_RECONFIG_DATA_CLAIM branch without "ret =": a rejected   *)
(* send leaves the loop with ret as it was, 0.                         *)
s10_ops_write_claim_drops_error ==
  /\ pc = "w_claim"
  /\ \E r \in SvcSendResults :
       /\ s10_svc_send_msg("COMMAND_RECONFIG_DATA_CLAIM", {}, 0, r)
       /\ IF r < 0
          THEN /\ pc' = "idle"
               /\ phase' = "write_ok"
               /\ ret' = 0
               /\ count' = 0
               /\ off' = 0
               /\ sent' = 0
               /\ wait_status' = 0
          ELSE /\ ret' = r
               /\ pc' = "w_wait"
               /\ UNCHANGED << phase, count, off, sent, wait_status >>
  /\ UNCHANGED << info_flags, ctype_flags, i, timeout, fw_version, status,
                  lock, done, total, cb, svc_done_calls,
                  consumedCompleted, subs >>
  /\ UNCHANGED << allBufferDone, waited >>
  /\ UNCHANGED << auxRest, dma_mapped, snap, held, delivered >>

(* count == 0 and a buffer still locked: COMMAND_RECONFIG_DATA_CLAIM;   *)
(* a rejected send breaks out of the loop with its error.              *)
s10_ops_write_claim ==
  /\ pc = "w_claim"
  /\ \E r \in SvcSendResults :
       /\ s10_svc_send_msg("COMMAND_RECONFIG_DATA_CLAIM", {}, 0, r)
       /\ IF r < 0
          THEN /\ pc' = "idle"
               /\ phase' = "write_failed"
               /\ ret' = r
               /\ count' = 0
               /\ off' = 0
               /\ sent' = 0
               /\ wait_status' = 0
          ELSE /\ ret' = r
               /\ pc' = "w_wait"
               /\ UNCHANGED << phase, count, off, sent, wait_status >>
  /\ UNCHANGED << info_flags, ctype_flags, i, timeout, fw_version, status,
                  lock, done, total, cb, svc_done_calls, 
                  consumedCompleted, subs >>
  /\ UNCHANGED << allBufferDone, waited >>
  /\ UNCHANGED << auxRest, dma_mapped, snap, held, delivered >>

s10_ops_write_wait ==
  /\ pc = "w_wait"
  /\ IF done > 0
     THEN /\ done' = done - 1
          /\ wait_status' = 1
     ELSE /\ wait_status' = 0
          /\ UNCHANGED done
  /\ allBufferDone' = (allBufferDone /\ done > 0)
  /\ awaiting' = FALSE
  /\ msg' = NoMsg
  /\ pc' = "w_test_done"
  /\ UNCHANGED << phase, info_flags, ctype_flags, fw_version, status, lock,
                  count, off, i, ret, sent, timeout, total, envVars,
                  svc_done_calls, consumedCompleted, subs >>
  /\ UNCHANGED waited
  /\ UNCHANGED auxVars

(* The BUFFER_DONE test of s10_ops_write without the "continue": the   *)
(* ERROR test follows also when BUFFER_DONE was found set.             *)
s10_ops_write_test_done_no_continue ==
  /\ pc = "w_test_done"
  /\ IF "BUFFER_DONE" \in status
     THEN /\ status' = status \ { "BUFFER_DONE" }
          /\ ret' = 0
          /\ pc' = "w_test_error"
          /\ UNCHANGED wait_status
     ELSE /\ pc' = "w_test_submitted"
          /\ UNCHANGED << status, ret, wait_status >>
  /\ allBufferDone' = (allBufferDone /\ "BUFFER_DONE" \in status)
  /\ UNCHANGED << phase, info_flags, ctype_flags, fw_version, lock, done,
                  count, off, i, sent, timeout, msg, total, envVars,
                  histVars >>
  /\ UNCHANGED waited
  /\ UNCHANGED auxVars

(* The two progress-bit tests of s10_ops_write joined by "|" in place   *)
(* of "||": both bits are tested and cleared in one go.                *)
s10_ops_write_test_done_no_short_circuit ==
  /\ pc = "w_test_done"
  /\ IF status \cap { "BUFFER_DONE", "BUFFER_SUBMITTED" } # {}
     THEN /\ status' = status \ { "BUFFER_DONE", "BUFFER_SUBMITTED" }
          /\ ret' = 0
          /\ pc' = "w_reinit"
          /\ wait_status' = 0
     ELSE /\ pc' = "w_test_error"
          /\ UNCHANGED << status, ret, wait_status >>
  /\ allBufferDone' = (allBufferDone /\ "BUFFER_DONE" \in status)
  /\ UNCHANGED << phase, info_flags, ctype_flags, fw_version, lock, done,
                  count, off, i, sent, timeout, msg, total, envVars,
                  histVars >>
  /\ UNCHANGED waited
  /\ UNCHANGED auxVars

(* test_and_clear_bit(SVC_STATUS_BUFFER_DONE): ret = 0 and continue,   *)
(* else the SVC_STATUS_BUFFER_SUBMITTED test.                           *)
s10_ops_write_test_done ==
  /\ pc = "w_test_done"
  /\ IF "BUFFER_DONE" \in status
     THEN /\ status' = status \ { "BUFFER_DONE" }
          /\ ret' = 0
          /\ pc' = "w_reinit"
          /\ wait_status' = 0
     ELSE /\ pc' = "w_test_submitted"
          /\ UNCHANGED << status, ret, wait_status >>
  /\ allBufferDone' = (allBufferDone /\ "BUFFER_DONE" \in status)
  /\ UNCHANGED << phase, info_flags, ctype_flags, fw_version, lock, done,
                  count, off, i, sent, timeout, msg, total, envVars,
                  histVars >>
  /\ UNCHANGED waited
  /\ UNCHANGED auxVars

s10_ops_write_test_submitted ==
  /\ pc = "w_test_submitted"
  /\ IF "BUFFER_SUBMITTED" \in status
     THEN /\ status' = status \ { "BUFFER_SUBMITTED" }
          /\ ret' = 0
          /\ pc' = "w_reinit"
          /\ wait_status' = 0
     ELSE /\ pc' = "w_test_error"
          /\ UNCHANGED << status, ret, wait_status >>
  /\ UNCHANGED << phase, info_flags, ctype_flags, fw_version, lock, done,
                  count, off, i, sent, timeout, msg, total, envVars,
                  histVars >>
  /\ UNCHANGED << allBufferDone, waited >>
  /\ UNCHANGED auxVars

(* The last two tests of s10_ops_write's loop in the other order: the  *)
(* wait_status test, then the ERROR test.                              *)
s10_ops_write_test_error_timeout_first ==
  /\ pc = "w_test_error"
  /\ IF wait_status = 0
     THEN /\ Return(-Errno.ETIMEDOUT, "write_failed")
          /\ UNCHANGED status
     ELSE IF "ERROR" \in status
     THEN /\ status' = status \ { "ERROR" }
          /\ Return(-Errno.EFAULT, "write_failed")
     ELSE /\ UNCHANGED status
          /\ pc' = "w_reinit"
          /\ wait_status' = 0
          /\ UNCHANGED << phase, ret, info_flags, ctype_flags, count,
                          off, i, sent, timeout, msg >>
  /\ UNCHANGED << fw_version, lock, done, total, envVars, histVars >>
  /\ UNCHANGED << allBufferDone, waited >>
  /\ UNCHANGED auxVars

(* The ERROR test, then the wait_status test, then the next iteration. *)
s10_ops_write_test_error ==
  /\ pc = "w_test_error"
  /\ IF "ERROR" \in status
     THEN /\ status' = status \ { "ERROR" }
          /\ Return(-Errno.EFAULT, "write_failed")
     ELSE /\ UNCHANGED status
          /\ IF wait_status = 0
             THEN Return(-Errno.ETIMEDOUT, "write_failed")
             ELSE /\ pc' = "w_reinit"
                  /\ wait_status' = 0
                  /\ UNCHANGED << phase, ret, info_flags, ctype_flags, count,
                                  off, i, sent, timeout, msg >>
  /\ UNCHANGED << fw_version, lock, done, total, envVars, histVars >>
  /\ UNCHANGED << allBufferDone, waited >>
  /\ UNCHANGED auxVars

(* ------------------------------------------------------------------ *)
(* s10_ops_write_complete                                               *)
(* ------------------------------------------------------------------ *)

s10_ops_write_complete_reinit ==
  /\ pc = "wc_reinit"
  /\ done' = 0
  /\ Goto("wc_send")
  /\ UNCHANGED << fw_version, status, lock, ret, total, envVars, histVars >>
  /\ UNCHANGED << allBufferDone, waited >>
  /\ UNCHANGED auxVars

s10_ops_write_complete_send ==
  /\ pc = "wc_send"
  /\ \E r \in SvcSendResults :
       /\ s10_svc_send_msg("COMMAND_RECONFIG_STATUS", {}, 0, r)
       /\ ret' = r
       /\ pc' = IF r < 0 THEN "wc_done" ELSE "wc_wait"
  /\ UNCHANGED << phase, fw_version, status, lock, done, pumpLocals, cb,
                  svc_done_calls, consumedCompleted, subs >>
  /\ UNCHANGED << allBufferDone, waited >>
  /\ UNCHANGED << auxRest, dma_mapped, snap, held, delivered >>

(* wait_for_completion_timeout(timeout) after e jiffies: 0 when the     *)
(* time ran out with the completion not signaled, else the jiffies     *)
(* left, which the kernel reports as at least 1 also when the          *)
(* completion was signaled just as the time ran out; l.401 takes 0 for *)
(* the timeout and l.408 keeps every other value as the next timeout.  *)
s10_ops_write_complete_wait ==
  /\ pc = "wc_wait"
  /\ IF done > 0
     THEN /\ done' = done - 1
          /\ \E e \in 0 .. timeout :
               /\ timeout' = Max(timeout - e, 1)
               /\ waited' = Min(waited + e, MaxWaited)
          /\ ret' = 0
          /\ pc' = "wc_test_completed"
     ELSE /\ ret' = -Errno.ETIMEDOUT
          /\ waited' = Min(waited + timeout, MaxWaited)
          /\ pc' = "wc_done"
          /\ UNCHANGED << done, timeout >>
  /\ awaiting' = FALSE
  /\ msg' = NoMsg
  /\ UNCHANGED << phase, info_flags, ctype_flags, fw_version, status, lock,
                  count, off, i, sent, wait_status, total, envVars,
                  svc_done_calls, consumedCompleted, subs >>
  /\ UNCHANGED allBufferDone
  /\ UNCHANGED auxVars

(* The COMPLETED test of s10_ops_write_complete without the "break":   *)
(* the ERROR test follows also when COMPLETED was found set.           *)
s10_ops_write_complete_test_completed_no_break ==
  /\ pc = "wc_test_completed"
  /\ IF "COMPLETED" \in status
     THEN /\ status' = status \ { "COMPLETED" }
          /\ consumedCompleted' = TRUE
     ELSE UNCHANGED << status, consumedCompleted >>
  /\ Goto("wc_test_error")
  /\ UNCHANGED << fw_version, lock, done, ret, total, envVars, svc_done_calls,
                  awaiting, subs >>
  /\ UNCHANGED << allBufferDone, waited >>
  /\ UNCHANGED auxVars

(* timeout = ret; ret = 0; test_and_clear_bit(SVC_STATUS_COMPLETED)     *)
(* breaks out of the loop.                                              *)
s10_ops_write_complete_test_completed ==
  /\ pc = "wc_test_completed"
  /\ IF "COMPLETED" \in status
     THEN /\ status' = status \ { "COMPLETED" }
          /\ consumedCompleted' = TRUE
          /\ Goto("wc_done")
     ELSE /\ Goto("wc_test_error")
          /\ UNCHANGED << status, consumedCompleted >>
  /\ UNCHANGED << fw_version, lock, done, ret, total, envVars, svc_done_calls,
                  awaiting, subs >>
  /\ UNCHANGED << allBufferDone, waited >>
  /\ UNCHANGED auxVars

(* The ERROR test of s10_ops_write_complete without "ret = -EFAULT".   *)
s10_ops_write_complete_test_error_keeps_ret ==
  /\ pc = "wc_test_error"
  /\ IF "ERROR" \in status
     THEN /\ status' = status \ { "ERROR" }
          /\ Goto("wc_done")
     ELSE /\ Goto("wc_reinit")
          /\ UNCHANGED status
  /\ UNCHANGED << fw_version, lock, done, ret, total, envVars, histVars >>
  /\ UNCHANGED << allBufferDone, waited >>
  /\ UNCHANGED auxVars

s10_ops_write_complete_test_error ==
  /\ pc = "wc_test_error"
  /\ IF "ERROR" \in status
     THEN /\ status' = status \ { "ERROR" }
          /\ ret' = -Errno.EFAULT
          /\ Goto("wc_done")
     ELSE /\ Goto("wc_reinit")
          /\ UNCHANGED << status, ret >>
  /\ UNCHANGED << fw_version, lock, done, total, envVars, histVars >>
  /\ UNCHANGED << allBufferDone, waited >>
  /\ UNCHANGED auxVars

(* After the loop: stratix10_svc_done, return ret. *)
s10_ops_write_complete_done ==
  /\ pc = "wc_done"
  /\ svc_done_calls' = svc_done_calls + 1
  /\ waited' = 0
  /\ Return(ret, IF ret = 0 THEN "done" ELSE "write_complete_failed")
  /\ UNCHANGED << fw_version, status, lock, done, total, envVars,
                  consumedCompleted, awaiting, subs >>
  /\ UNCHANGED allBufferDone
  /\ UNCHANGED auxVars

(* ------------------------------------------------------------------ *)
(* The remote and the notification context                              *)
(* ------------------------------------------------------------------ *)

(* Positions of the calls of s10_svc_send_msg, of                       *)
(* wait_for_completion_timeout and of the status tests of s10_ops_write. *)
SendPcs == { "wi_send", "sb_send", "w_claim", "wc_send" }
WaitPcs == { "wi_wait", "w_wait", "wc_wait" }
WriteTestPcs == { "w_test_done", "w_test_submitted", "w_test_error" }

(* The bits of a status word that the callback's loop copies. *)
CopiedBits(w) == { b \in w : BitIndex(b) <= BitIndex("ERROR") }

(* Buffers whose address the remote may give back: those in use. *)
InUse == { b \in Bufs : lock[b] }

(* The service layer answers an outstanding request by calling          *)
(* client.receive_cb = s10_receive_callback with data->status = w.      *)
(* The callback's loop for (i = 0; i <= SVC_STATUS_ERROR; i++) set_bit  *)
(* runs first; the s10_unlock_bufs calls follow only under BUFFER_DONE. *)
s10_receive_callback_bits ==
  /\ cb = "idle"
  /\ outstanding > 0
  /\ outstanding' = outstanding - 1
  /\ \E w \in NotifyWords :
       /\ cb' = IF "BUFFER_DONE" \in w THEN "unlock" ELSE "complete"
       /\ status' = status \cup CopiedBits(w)
       /\ delivered' = IF \/ rec = "delivered" /\ pc # "idle"
                          \/ rec = "awaited" /\ pc \in WaitPcs
                       THEN delivered \cup (w \cap { "COMPLETED", "ERROR" })
                       ELSE delivered
  /\ UNCHANGED << pc, phase, fw_version, lock, done, ret, pumpLocals, msg,
                  histVars >>
  /\ UNCHANGED << allBufferDone, waited >>
  /\ UNCHANGED << auxRest, dma_mapped, snap, cmds, held >>

(* s10_receive_callback: the four s10_unlock_bufs calls under           *)
(* BUFFER_DONE.  K stands for data->kaddr1..kaddr4, the addresses the   *)
(* remote gives back; nothing reads them before this step.  Each call   *)
(* that matches a buffer does dma_unmap_single when the SMMU is enabled *)
(* and clear_bit_unlock.                                                *)
s10_receive_callback_unlock ==
  /\ cb = "unlock"
  /\ \E K \in SUBSET InUse :
       /\ lock' = [ b \in Bufs |-> IF b \in K THEN FALSE ELSE lock[b] ]
       /\ dma_mapped' = [ b \in Bufs |-> IF b \in K /\ is_smmu_enabled
                                          THEN FALSE ELSE dma_mapped[b] ]
       /\ held' = IF rec = "held" THEN held \ K ELSE held
  /\ cb' = "complete"
  /\ UNCHANGED << pc, phase, fw_version, status, done, ret, pumpLocals, msg,
                  outstanding, histVars >>
  /\ UNCHANGED << allBufferDone, waited >>
  /\ UNCHANGED << auxRest, snap, cmds, delivered >>

(* s10_receive_callback: complete(&priv->status_return_completion) *)
s10_receive_callback_complete ==
  /\ cb = "complete"
  /\ done' = done + 1
  /\ cb' = CbIdle
  /\ UNCHANGED << pc, phase, fw_version, status, lock, ret, pumpLocals, msg,
                  outstanding, histVars >>
  /\ UNCHANGED << allBufferDone, waited >>
  /\ UNCHANGED auxVars

(* ------------------------------------------------------------------ *)
(* Specification                                                        *)
(* ------------------------------------------------------------------ *)

PumpStep ==
  \/ s10_ops_write_init_flags
  \/ s10_ops_write_init_reinit
  \/ s10_ops_write_init_send
  \/ s10_ops_write_init_wait
  \/ s10_ops_write_init_test_ok
  \/ s10_ops_write_init_locks
  \/ s10_ops_write_init_done
  \/ s10_ops_write_reinit
  \/ s10_send_buf_scan
  \/ s10_send_buf_send
  \/ s10_ops_write_count
  \/ s10_ops_write_claim
  \/ s10_ops_write_wait
  \/ s10_ops_write_test_done
  \/ s10_ops_write_test_submitted
  \/ s10_ops_write_test_error
  \/ s10_ops_write_complete_reinit
  \/ s10_ops_write_complete_send
  \/ s10_ops_write_complete_wait
  \/ s10_ops_write_complete_test_completed
  \/ s10_ops_write_complete_test_error
  \/ s10_ops_write_complete_done

CallbackStep ==
  \/ s10_receive_callback_bits
  \/ s10_receive_callback_unlock
  \/ s10_receive_callback_complete

Next ==
  \/ CallWriteInit
  \/ CallWrite
  \/ CallWriteComplete
  \/ PumpStep
  \/ CallbackStep

Spec == Init /\ [][Next]_vars

(* The caller's thread is scheduled: a step of the running entry point  *)
(* that can be taken is taken, and a wait with nothing to wake it ends  *)
(* when its timeout expires.                                            *)
FairSpec == Spec /\ WF_vars(PumpStep)

(* ------------------------------------------------------------------ *)
(* Vocabulary of the properties                                         *)
(* ------------------------------------------------------------------ *)

Failed == { "write_init_failed", "write_failed", "write_complete_failed" }

(* The session has ended and control is back with the caller. *)
SessionEnded == pc = "idle" /\ phase \in Failed \cup { "done" }

(* This step hands a request to the channel and the channel accepts it. *)
AcceptedSend == pc \in SendPcs /\ pc' \in WaitPcs

(* ------------------------------------------------------------------ *)
(* C1                                                                   *)
(* ------------------------------------------------------------------ *)

(* C1: whenever a session has ended (DONE or FAILED) and control is     *)
(* back with the caller, the entry point that ended it has called       *)
(* stratix10_svc_done exactly once.                                     *)
C1_ReleasedExactlyOnce == SessionEnded => svc_done_calls = 1

(* ------------------------------------------------------------------ *)
(* C2                                                                   *)
(* ------------------------------------------------------------------ *)

(* C2: once a wait has returned TimedOut the entry point sends no       *)
(* further request and returns a failure, and by the time it returns    *)
(* it has called stratix10_svc_done exactly once.  In s10_ops_write the *)
(* timed-out wait is the one that left wait_status = 0.                 *)
C2_TimedOutFailsReleasedOnce ==
  [][ /\ (pc = "wi_wait" /\ done = 0 /\ pc' # pc)
           => (pc' = "wi_done" /\ ret' = -Errno.ETIMEDOUT)
      /\ (pc = "wc_wait" /\ done = 0 /\ pc' # pc)
           => (pc' = "wc_done" /\ ret' = -Errno.ETIMEDOUT)
      /\ (pc \in { "wi_done", "wc_done" } /\ ret = -Errno.ETIMEDOUT /\ pc' # pc)
           => (pc' = "idle" /\ phase' \in Failed /\ svc_done_calls' = 1)
      /\ (pc \in WriteTestPcs /\ wait_status = 0 /\ pc' # pc)
           => \/ pc' \in WriteTestPcs
              \/ pc' = "idle" /\ phase' = "write_failed" /\ svc_done_calls' = 1
    ]_vars

(* ------------------------------------------------------------------ *)
(* C3                                                                   *)
(* ------------------------------------------------------------------ *)

(* C3: s10_ops_write_complete returns 0 only after it has consumed a    *)
(* COMPLETED bit from the status flags; a timed-out wait, a failed      *)
(* send, or a wake-up that brought only ERROR never yields 0.           *)
C3_SuccessOnlyAfterCompleted ==
  /\ (pc = "wc_done" /\ ret = 0) => consumedCompleted
  /\ (pc = "idle" /\ phase = "done") => (ret = 0 /\ consumedCompleted)
  /\ (pc = "idle" /\ phase = "write_complete_failed") => ret < 0

(* C3 witness: a finish call has returned 0 after consuming COMPLETED.  *)
C3_Witness == pc = "idle" /\ phase = "done" /\ ret = 0 /\ consumedCompleted

(* ------------------------------------------------------------------ *)
(* C10                                                                  *)
(* ------------------------------------------------------------------ *)

(* C10: no entry point returns to the caller a failure whose cause is   *)
(* backpressure: -ENOBUFS, the code for "all buffers in use or the      *)
(* service queue is full", is never what the caller receives.           *)
C10_BackpressureNotSurfaced == pc = "idle" => ret # -Errno.ENOBUFS

(* ------------------------------------------------------------------ *)
(* C4                                                                   *)
(* ------------------------------------------------------------------ *)

(* C4: at most one request is outstanding at any time: whenever the     *)
(* channel accepts a request, every earlier request has been answered   *)
(* and its notification has been delivered.                             *)
C4_OneOutstanding ==
  [][ AcceptedSend => (outstanding = 0 /\ cb = CbIdle) ]_vars

(* C4 as it holds: every send is preceded by the return, signaled or    *)
(* timed out, of the wait that followed the previous accepted send; the *)
(* request of a wait that timed out may still be unanswered.            *)
C4_SendAfterWaitReturned ==
  [][ (pc \in SendPcs /\ pc' # pc) => ~awaiting ]_vars

(* C4 witness: a second data submit has been accepted, after the wait   *)
(* for the first returned.                                              *)
C4_Witness == pc = "w_wait" /\ Len(subs) = 2 /\ awaiting

(* ------------------------------------------------------------------ *)
(* C5                                                                   *)
(* ------------------------------------------------------------------ *)

(* C5: if from some point on no notification is delivered, the running  *)
(* call returns: always, eventually, either the entry point is back     *)
(* with the caller or a notification is being delivered.                *)
C5_BoundedRecovery == []<>(pc = "idle" \/ cb # CbIdle)

(* ------------------------------------------------------------------ *)
(* C6                                                                   *)
(* ------------------------------------------------------------------ *)

(* The step that leaves s10_ops_write_init's flag handling. *)
FlagsStep == pc = "wi_flags" /\ pc' # pc

(* The call returns -EINVAL from here without having sent anything. *)
FailsImmediately ==
  /\ pc' = "idle"
  /\ phase' = "write_init_failed"
  /\ ret' = -Errno.EINVAL
  /\ msg' = NoMsg
  /\ UNCHANGED << outstanding, awaiting >>

ReconfigSendStep == pc = "wi_send" /\ pc' # pc

CeilDiv(a, b) == (a + b - 1) \div b

(* C8: when s10_ops_write has returned 0 for an input of total bytes,   *)
(* it made exactly ceil(total / SVC_BUF_SIZE) accepted data submits;    *)
(* the k-th starts at offset (k - 1) * SVC_BUF_SIZE and is SVC_BUF_SIZE *)
(* long, except the last, which takes the bytes that remain.            *)
C8_ChunkSequence ==
  (pc = "idle" /\ phase = "write_ok") =>
    LET n == CeilDiv(total, SVC_BUF_SIZE) IN
      /\ Len(subs) = n
      /\ \A k \in 1 .. n :
           subs[k] = << (k - 1) * SVC_BUF_SIZE,
                        IF k < n THEN SVC_BUF_SIZE
                                 ELSE total - (n - 1) * SVC_BUF_SIZE >>

(* C8 witness: NUM_SVC_BUFS * SVC_BUF_SIZE + 1 bytes have been pushed   *)
(* with success: every buffer was used once, one of them twice, and the *)
(* last submit was of one byte.                                         *)
C8_Witness ==
  /\ pc = "idle"
  /\ phase = "write_ok"
  /\ total = NUM_SVC_BUFS * SVC_BUF_SIZE + 1
  /\ Len(subs) = NUM_SVC_BUFS + 1

(* ------------------------------------------------------------------ *)
(* C9                                                                   *)
(* ------------------------------------------------------------------ *)

SendBufPcs == { "sb_scan", "sb_send" }

(* C9: every COMMAND_RECONFIG_DATA_SUBMIT carries between 1 and         *)
(* SVC_BUF_SIZE bytes, s10_send_buf runs only while bytes remain, and   *)
(* when it returns its result is a positive byte count or a negative    *)
(* error, -ENOBUFS when its scan found no buffer to lock, and then the  *)
(* byte cursor has not moved; the result is never 0.                    *)
C9_NoZeroLengthSubmit ==
  /\ [](msg.command = "COMMAND_RECONFIG_DATA_SUBMIT"
          => msg.payload_length \in 1 .. SVC_BUF_SIZE)
  /\ [](pc \in SendBufPcs => count > 0)
  /\ [][ (pc \in SendBufPcs /\ pc' \notin SendBufPcs) =>
           /\ sent' # 0
           /\ sent' > 0 => (sent' = msg'.payload_length /\ pc' = "w_wait")
           /\ (pc = "sb_scan") => sent' = -Errno.ENOBUFS
           /\ sent' < 0 => UNCHANGED << count, off, subs >>
       ]_vars

(* C9 witness: a last chunk shorter than a buffer has been submitted.   *)
C9_Witness ==
  /\ pc = "w_wait"
  /\ msg.command = "COMMAND_RECONFIG_DATA_SUBMIT"
  /\ sent = 1
  /\ count = 0
  /\ total > SVC_BUF_SIZE

(* ------------------------------------------------------------------ *)
(* C14                                                                  *)
(* ------------------------------------------------------------------ *)

SendErrors == { r \in SvcSendResults : r < 0 }

(* C14: in a session in which every wait of s10_ops_write was signaled  *)
(* and found BUFFER_DONE set, s10_ops_write returns success, the        *)
(* s10_ops_write_complete that follows returns success, and no entry    *)
(* point finds SVC_STATUS_ERROR set (which it reports as -EFAULT).  A   *)
(* request that stratix10_svc_send rejects is left aside.               *)
C14_AllBufferDoneSucceeds ==
  (allBufferDone /\ pc = "idle")
    => /\ phase \in { "write_failed", "write_complete_failed" }
            => ret \in SendErrors
       /\ ret # -Errno.EFAULT

(* C14 as it holds: in such a session s10_ops_write never tests         *)
(* SVC_STATUS_ERROR and never fails with -EFAULT or -ETIMEDOUT; it      *)
(* returns success unless stratix10_svc_send rejects a DATA_CLAIM       *)
(* request.  The s10_ops_write_complete that follows succeeds exactly   *)
(* when one of its polls consumes SVC_STATUS_COMPLETED.                 *)
C14_AllBufferDonePushSucceeds ==
  allBufferDone =>
    /\ phase = "write" => pc \notin { "w_test_submitted", "w_test_error" }
    /\ (pc = "idle" /\ phase = "write_failed") => ret \in SendErrors
    /\ (pc = "idle" /\ phase = "done") => consumedCompleted
    /\ (pc = "idle" /\ phase = "write_complete_failed") => ~consumedCompleted

(* C14 witness: an image longer than the whole pool has been pushed     *)
(* with success, every wait having found BUFFER_DONE.                   *)
C14_Witness ==
  /\ allBufferDone
  /\ pc = "idle"
  /\ phase = "write_ok"
  /\ total = MaxCount

(* ------------------------------------------------------------------ *)
(* C15                                                                  *)
(* ------------------------------------------------------------------ *)

(* s10_ops_write is running on an image of NUM_SVC_BUFS - 1 buffers. *)
PushOfThreeBuffers ==
  phase = "write" /\ total = (NUM_SVC_BUFS - 1) * SVC_BUF_SIZE

(* C15: in a push of exactly three buffer capacities with a pool of     *)
(* four, the fourth buffer is never locked, and once the input is       *)
(* exhausted the unlocked buffer count is found to be NUM_SVC_BUFS and  *)
(* no COMMAND_RECONFIG_DATA_CLAIM is sent; s10_ops_write_complete ends  *)
(* at the first poll that finds COMPLETED.                              *)
C15_ThreeBuffersNoClaim ==
  /\ PushOfThreeBuffers =>
       /\ ~lock[NUM_SVC_BUFS - 1]
       /\ pc = "w_count" => s10_get_unlocked_buffer_count = NUM_SVC_BUFS
       /\ pc # "w_claim"
       /\ msg.command # "COMMAND_RECONFIG_DATA_CLAIM"
  /\ consumedCompleted => pc \in { "wc_done", "idle" }

(* C15 as it holds: the fourth buffer is never locked; a                *)
(* COMMAND_RECONFIG_DATA_CLAIM is sent exactly when the input is        *)
(* exhausted and a buffer is still locked, that is, when the remote has *)
(* not yet given back every buffer; s10_ops_write returns success only  *)
(* with every buffer unlocked; s10_ops_write_complete ends at the first *)
(* poll that finds COMPLETED.                                           *)
C15_ThreeBuffersClaimUntilFree ==
  /\ PushOfThreeBuffers =>
       /\ ~lock[NUM_SVC_BUFS - 1]
       /\ pc = "w_claim" => count = 0
       /\ msg.command = "COMMAND_RECONFIG_DATA_CLAIM"
            => (count = 0 /\ Len(subs) = NUM_SVC_BUFS - 1)
  /\ (pc = "idle" /\ phase = "write_ok") => InUse = {}
  /\ consumedCompleted => pc \in { "wc_done", "idle" }

(* C15 witness: the three chunks are with the remote in the first three *)
(* buffers and a COMMAND_RECONFIG_DATA_CLAIM has been sent.             *)
C15_Witness ==
  /\ PushOfThreeBuffers
  /\ pc = "w_wait"
  /\ msg.command = "COMMAND_RECONFIG_DATA_CLAIM"
  /\ InUse = Bufs \ { NUM_SVC_BUFS - 1 }

(* ------------------------------------------------------------------ *)
(* C20                                                                  *)
(* ------------------------------------------------------------------ *)

(* C20: within one s10_ops_write_complete the timeout of a poll is      *)
(* never more than that of the poll before, the jiffies spent waiting   *)
(* never add up to more than S10_RECONFIG_TIMEOUT, and no poll waits    *)
(* once that many jiffies have been spent.                              *)
C20_BudgetNeverExceeded ==
  /\ [](phase = "write_complete" => waited <= S10_RECONFIG_TIMEOUT)
  /\ [](pc = "wc_wait" => waited < S10_RECONFIG_TIMEOUT)
  /\ [][ (pc = "wc_wait" /\ pc' # pc) => timeout' <= timeout ]_vars

(* ------------------------------------------------------------------ *)
(* s10_receive_callback statement by statement                          *)
(* ------------------------------------------------------------------ *)

(* The driver's thread and what only it writes. *)
pumpVars == << pc, phase, ret, pumpLocals, msg, fw_version, histVars,
               allBufferDone, waited >>

(* s10_unlock_bufs that unlocks the first buffer when no buffer's       *)
(* address matches.                                                     *)
s10_unlock_bufs_first_if_unknown(P, kaddr) ==
  IF kaddr = NullHandle
  THEN P
  ELSE LET b == IF \E m \in Bufs : P.svc_buf[m] /\ kaddr = BufHandle(m)
                THEN kaddr.index
                ELSE 0
       IN [ P EXCEPT !.lock[b] = FALSE,
                     !.dma_mapped[b] = IF is_smmu_enabled THEN FALSE ELSE @ ]

(* s10_unlock_bufs with change_bit in place of clear_bit_unlock. *)
s10_unlock_bufs_change_bit(P, kaddr) ==
  IF kaddr = NullHandle
  THEN P
  ELSE IF \E m \in Bufs : P.svc_buf[m] /\ kaddr = BufHandle(m)
       THEN LET b == kaddr.index
            IN [ P EXCEPT !.lock[b] = ~@,
                          !.dma_mapped[b] = IF is_smmu_enabled THEN FALSE
                                            ELSE @ ]
       ELSE P

(* s10_unlock_bufs(priv, kaddr) on pool P: nothing for NULL; the buffer *)
(* whose buf equals kaddr is unmapped when the SMMU is enabled and      *)
(* unlocked; an address that matches no buffer only raises the WARN.    *)
s10_unlock_bufs(P, kaddr) ==
  IF kaddr = NullHandle
  THEN P
  ELSE IF \E m \in Bufs : P.svc_buf[m] /\ kaddr = BufHandle(m)
       THEN LET b == kaddr.index
            IN [ P EXCEPT !.lock[b] = FALSE,
                          !.dma_mapped[b] = IF is_smmu_enabled THEN FALSE
                                            ELSE @ ]
       ELSE P

(* Callback positions of the four s10_unlock_bufs calls. *)
KaddrPos == << "kaddr1", "kaddr2", "kaddr3", "kaddr4" >>

(* The service layer calls s10_receive_callback with *data = d. *)
CbDeliver ==
  /\ cb = CbIdle
  /\ outstanding > 0
  /\ outstanding' = outstanding - 1
  /\ \E d \in CbData : data' = d
  /\ answered' = IF data = NoData THEN answered ELSE answered \cup { data }
  /\ snap' = Pool
  /\ cb' = "status"
  /\ UNCHANGED << pumpVars, status, lock, done, poolVars, ops, raceVars >>
  /\ UNCHANGED << tearVars, recVars >>

(* status = data->status and the set_bit loop that completes before the *)
(* pump is woken.                                                       *)
s10_receive_callback_status_wakes_first ==
  /\ cb = "status"
  /\ status' = status \cup CopiedBits(data.status)
  /\ done' = done + 1
  /\ cb' = IF "BUFFER_DONE" \in data.status THEN KaddrPos[1] ELSE CbIdle
  /\ UNCHANGED << pumpVars, lock, outstanding, data, poolVars, ops, snap,
                  raceVars >>
  /\ UNCHANGED answered
  /\ UNCHANGED << tearVars, recVars >>

(* status = data->status; for (i = 0; i <= SVC_STATUS_ERROR; i++)       *)
(* if (status & (1 << i)) set_bit(i, &priv->status);                    *)
s10_receive_callback_status ==
  /\ cb = "status"
  /\ status' = status \cup CopiedBits(data.status)
  /\ cb' = IF "BUFFER_DONE" \in data.status THEN KaddrPos[1] ELSE "complete"
  /\ UNCHANGED << pumpVars, lock, done, outstanding, data, poolVars, ops,
                  snap, raceVars >>
  /\ UNCHANGED answered
  /\ UNCHANGED << tearVars, recVars >>

(* Only s10_unlock_bufs(priv, data->kaddr1) is called. *)
s10_receive_callback_kaddr_first_only ==
  /\ cb = KaddrPos[1]
  /\ LET P == s10_unlock_bufs(Pool, data.kaddr[1])
     IN /\ lock' = P.lock
        /\ dma_mapped' = P.dma_mapped
  /\ cb' = "complete"
  /\ UNCHANGED << pumpVars, status, done, outstanding, data, svc_buf,
                  is_smmu_enabled, ops, snap, raceVars >>
  /\ UNCHANGED answered
  /\ UNCHANGED << tearVars, recVars >>

(* The four s10_unlock_bufs calls given up at the first address that    *)
(* matches no buffer.                                                   *)
s10_receive_callback_kaddr_stops_at_unknown ==
  /\ \E k \in 1 .. Len(KaddrPos) :
       /\ cb = KaddrPos[k]
       /\ LET P == s10_unlock_bufs(Pool, data.kaddr[k])
          IN /\ lock' = P.lock
             /\ dma_mapped' = P.dma_mapped
       /\ cb' = IF k = Len(KaddrPos) \/ data.kaddr[k] = UnknownHandle
                THEN "complete"
                ELSE KaddrPos[k + 1]
  /\ UNCHANGED << pumpVars, status, done, outstanding, data, svc_buf,
                  is_smmu_enabled, ops, snap, raceVars >>
  /\ UNCHANGED answered
  /\ UNCHANGED << tearVars, recVars >>

(* One of s10_unlock_bufs(priv, data->kaddr1) .. (priv, data->kaddr4),  *)
(* in that order.                                                       *)
s10_receive_callback_kaddr ==
  /\ \E k \in 1 .. Len(KaddrPos) :
       /\ cb = KaddrPos[k]
       /\ LET P == s10_unlock_bufs(Pool, data.kaddr[k])
          IN /\ lock' = P.lock
             /\ dma_mapped' = P.dma_mapped
       /\ cb' = IF k = Len(KaddrPos) THEN "complete" ELSE KaddrPos[k + 1]
  /\ UNCHANGED << pumpVars, status, done, outstanding, data, svc_buf,
                  is_smmu_enabled, ops, snap, raceVars >>
  /\ UNCHANGED answered
  /\ UNCHANGED << tearVars, recVars >>

(* The chunks s10_ops_write submits for an image of n bytes. *)
ChunksOf(n) ==
  [ k \in 1 .. CeilDiv(n, SVC_BUF_SIZE) |->
      << (k - 1) * SVC_BUF_SIZE, Min(SVC_BUF_SIZE, n - (k - 1) * SVC_BUF_SIZE) >> ]

(* s10_ops_write has submitted an image of MaxCount bytes, has sent     *)
(* COMMAND_RECONFIG_DATA_CLAIM and is about to wait; every buffer is    *)
(* with the remote, and requests whose waits timed out are still        *)
(* unanswered, MaxNotifications requests in all.                        *)
CbInit ==
  /\ pc = "w_wait"
  /\ phase = "write"
  /\ info_flags = {}
  /\ ctype_flags = {}
  /\ fw_version = INVALID_FIRMWARE_VERSION
  /\ status = {}
  /\ lock = [ b \in Bufs |-> TRUE ]
  /\ done = 0
  /\ count = 0
  /\ off = MaxCount
  /\ i = 0
  /\ ret = 0
  /\ sent = 0
  /\ wait_status = 0
  /\ timeout = 0
  /\ msg = [ command |-> "COMMAND_RECONFIG_DATA_CLAIM", flags |-> {},
             payload_length |-> 0 ]
  /\ outstanding = MaxNotifications
  /\ cb = CbIdle
  /\ svc_done_calls = 1
  /\ consumedCompleted = FALSE
  /\ awaiting = TRUE
  /\ total = MaxCount
  /\ subs = ChunksOf(MaxCount)
  /\ allBufferDone = TRUE
  /\ waited = 0
  /\ data = NoData
  /\ answered = {}
  /\ svc_buf = ProbedPool.svc_buf
  /\ is_smmu_enabled \in BOOLEAN
  /\ dma_mapped = [ b \in Bufs |-> is_smmu_enabled /\ lock[b] ]
  /\ ops = << >>
  /\ snap = Pool
  /\ other = [ pc |-> "idle", i |-> 0, sent |-> 0 ]
  /\ cur = "t1"
  /\ fb_i = NUM_SVC_BUFS
  /\ num_free = 0
  /\ claimed = [ b \in Bufs |-> {} ]
  /\ freed = [ b \in Bufs |-> 0 ]
  /\ rm_i = NUM_SVC_BUFS
  /\ rec = "none"
  /\ cmds = << >>
  /\ held = {}
  /\ delivered = {}
  /\ obtained = [ b \in Bufs |-> IF svc_buf[b] THEN 1 ELSE 0 ]

CbNext ==
  \/ CbDeliver
  \/ s10_receive_callback_status
  \/ s10_receive_callback_kaddr
  \/ s10_receive_callback_complete
  \/ s10_ops_write_wait

(* The callback, statement by statement, against the wait of            *)
(* s10_ops_write.                                                       *)
CbSpec == CbInit /\ [][CbNext]_vars

(* The callback is past its set_bit loop. *)
PastStatusLoop == cb \in { KaddrPos[k] : k \in 1 .. Len(KaddrPos) } \cup { "complete" }

(* The buffers whose address is in one of the four kaddr slots. *)
Returned(d) ==
  { b \in Bufs : \E k \in 1 .. Len(KaddrPos) : d.kaddr[k] = BufHandle(b) }

(* ------------------------------------------------------------------ *)
(* C16                                                                  *)
(* ------------------------------------------------------------------ *)

(* C16: once the callback's set_bit loop has run, every status bit of   *)
(* the message, SVC_STATUS_NO_SUPPORT included, is set in priv->status, *)
(* and no step of the callback clears a bit of priv->status.            *)
C16_EveryConditionAggregated ==
  /\ [](PastStatusLoop => data.status \subseteq status)
  /\ [][ cb # CbIdle => status \subseteq status' ]_vars

(* ------------------------------------------------------------------ *)
(* C17                                                                  *)
(* ------------------------------------------------------------------ *)

(* C17: when the callback reaches complete(), every buffer whose        *)
(* address is in a kaddr slot of the message is unlocked, whatever the  *)
(* status bits of the message.                                          *)
C17_HandlesReleasedWhateverStatus ==
  cb = "complete" => \A b \in Returned(data) : ~lock[b]

(* C17 as it holds: when the callback reaches complete() for a message  *)
(* with SVC_STATUS_BUFFER_DONE, exactly the buffers whose address is in *)
(* a kaddr slot have been unlocked; for a message without               *)
(* SVC_STATUS_BUFFER_DONE no lock flag has changed.                     *)
C17_HandlesReleasedOnBufferDone ==
  cb = "complete" =>
    IF "BUFFER_DONE" \in data.status
    THEN lock = [ b \in Bufs |-> snap.lock[b] /\ b \notin Returned(data) ]
    ELSE lock = snap.lock

(* C17 witness: a BUFFER_DONE message gave back two different locked    *)
(* buffers, in the first and the last slot, and both are unlocked when  *)
(* the callback reaches complete().                                     *)
C17_Witness ==
  /\ cb = "complete"
  /\ "BUFFER_DONE" \in data.status
  /\ data.kaddr[1] = BufHandle(0)
  /\ data.kaddr[Len(KaddrPos)] = BufHandle(NUM_SVC_BUFS - 1)
  /\ snap.lock[0] /\ snap.lock[NUM_SVC_BUFS - 1]
  /\ ~lock[0] /\ ~lock[NUM_SVC_BUFS - 1]

(* ------------------------------------------------------------------ *)
(* C18                                                                  *)
(* ------------------------------------------------------------------ *)

(* The messages whose callback has returned. *)
Completed ==
  answered \cup (IF cb = CbIdle /\ data # NoData THEN { data } ELSE {})

(* The effects of the callback for message d are in place. *)
Visible(d) ==
  /\ CopiedBits(d.status) \subseteq status
  /\ "BUFFER_DONE" \in d.status => \A b \in Returned(d) : ~lock[b]

(* C18: when the wait of s10_ops_write returns signaled, a callback has *)
(* returned, and for every callback that has returned the bits it       *)
(* copies are set in priv->status and the buffers it releases are       *)
(* unlocked.                                                            *)
C18_EffectsVisibleAtWake ==
  (pc = "w_test_done" /\ wait_status # 0) =>
    /\ Completed # {}
    /\ \A d \in Completed : Visible(d)

(* C18 witness: the wait returned signaled by a BUFFER_DONE | ERROR     *)
(* message that gave back a buffer, while the callback for the next     *)
(* message is between its s10_unlock_bufs calls.                        *)
C18_Witness ==
  /\ pc = "w_test_done"
  /\ wait_status # 0
  /\ cb = KaddrPos[2]
  /\ \E d \in answered :
       /\ d.status = { "BUFFER_DONE", "ERROR" }
       /\ Returned(d) # {}
       /\ \A b \in Returned(d) : ~lock[b]
  /\ "ERROR" \in status

(* ------------------------------------------------------------------ *)
(* The buffer pool used sequentially                                    *)
(* ------------------------------------------------------------------ *)

(* Number of pool operations followed. *)
MaxOps == 6

(* What the caller's thread holds besides the loop index and result of  *)
(* s10_send_buf.                                                        *)
poolFrame == << phase, info_flags, ctype_flags, fw_version, status, done,
                count, off, ret, wait_status, timeout, msg, total, envVars,
                histVars, allBufferDone, waited, data, raceVars,
                recVars >>

(* s10_send_buf is entered: the scan starts at the first buffer. *)
PoolAcquire ==
  /\ pc = "pool"
  /\ Len(ops) < MaxOps
  /\ pc' = "sb_scan"
  /\ i' = 0
  /\ sent' = 0
  /\ snap' = Pool
  /\ UNCHANGED << poolFrame, lock, poolVars, ops >>
  /\ UNCHANGED answered
  /\ UNCHANGED tearVars

(* The scan of s10_send_buf has ended: with buffer i claimed, the       *)
(* buffer is mapped when the SMMU is enabled (l.296-299); with no       *)
(* buffer, -ENOBUFS is returned.                                        *)
PoolAcquired ==
  /\ pc \in { "sb_send", "w_reinit" }
  /\ dma_mapped' = IF pc = "sb_send" /\ is_smmu_enabled
                   THEN [ dma_mapped EXCEPT ![i] = TRUE ]
                   ELSE dma_mapped
  /\ ops' = Append(ops, [ op |-> "acquire",
                          h |-> IF pc = "sb_send" THEN BufHandle(i)
                                ELSE NullHandle,
                          ret |-> IF pc = "sb_send" THEN 0 ELSE sent,
                          before |-> snap,
                          after |-> [ Pool EXCEPT !.dma_mapped = dma_mapped' ] ])
  /\ pc' = "pool"
  /\ i' = 0
  /\ sent' = 0
  /\ UNCHANGED << poolFrame, lock, svc_buf, is_smmu_enabled, snap >>
  /\ UNCHANGED answered
  /\ UNCHANGED tearVars

(* s10_unlock_bufs(priv, h) for any address h. *)
PoolRelease ==
  /\ pc = "pool"
  /\ Len(ops) < MaxOps
  /\ \E h \in Handles :
       LET P == s10_unlock_bufs(Pool, h)
       IN /\ lock' = P.lock
          /\ dma_mapped' = P.dma_mapped
          /\ ops' = Append(ops, [ op |-> "release", h |-> h, ret |-> 0,
                                  before |-> Pool, after |-> P ])
  /\ UNCHANGED << poolFrame, pc, i, sent, svc_buf, is_smmu_enabled, snap >>
  /\ UNCHANGED answered
  /\ UNCHANGED tearVars

(* s10_ops_write holds an image of MaxCount bytes, every buffer is as   *)
(* s10_probe left it, and no request is with the remote.                *)
PoolInit ==
  /\ pc = "pool"
  /\ phase = "write"
  /\ info_flags = {}
  /\ ctype_flags = {}
  /\ fw_version = INVALID_FIRMWARE_VERSION
  /\ status = {}
  /\ lock = ProbedPool.lock
  /\ done = 0
  /\ count = MaxCount
  /\ off = 0
  /\ i = 0
  /\ ret = 0
  /\ sent = 0
  /\ wait_status = 0
  /\ timeout = 0
  /\ msg = NoMsg
  /\ outstanding = 0
  /\ cb = CbIdle
  /\ svc_done_calls = 1
  /\ consumedCompleted = FALSE
  /\ awaiting = FALSE
  /\ total = MaxCount
  /\ subs = << >>
  /\ allBufferDone = TRUE
  /\ waited = 0
  /\ data = NoData
  /\ answered = {}
  /\ svc_buf = ProbedPool.svc_buf
  /\ is_smmu_enabled \in BOOLEAN
  /\ dma_mapped = ProbedPool.dma_mapped
  /\ ops = << >>
  /\ snap = ProbedPool
  /\ other = [ pc |-> "idle", i |-> 0, sent |-> 0 ]
  /\ cur = "t1"
  /\ fb_i = NUM_SVC_BUFS
  /\ num_free = 0
  /\ claimed = [ b \in Bufs |-> {} ]
  /\ freed = [ b \in Bufs |-> 0 ]
  /\ rm_i = NUM_SVC_BUFS
  /\ rec = "none"
  /\ cmds = << >>
  /\ held = {}
  /\ delivered = {}
  /\ obtained = [ b \in Bufs |-> IF svc_buf[b] THEN 1 ELSE 0 ]

PoolNext ==
  \/ PoolAcquire
  \/ s10_send_buf_scan
  \/ PoolAcquired
  \/ PoolRelease

(* Claims by s10_send_buf's scan and releases by s10_unlock_bufs, one   *)
(* after the other in any order.                                        *)
PoolSpec == PoolInit /\ [][PoolNext]_vars

(* Operation e is a claim that found a buffer. *)
Acquired(e) == e.op = "acquire" /\ e.ret = 0

(* Operation e is a claim that found no buffer. *)
Exhausted(e) == e.op = "acquire" /\ e.ret = -Errno.ENOBUFS

(* The buffers of pool P that are not locked. *)
Unlocked(P) == { b \in Bufs : ~P.lock[b] }

(* ------------------------------------------------------------------ *)
(* C11                                                                  *)
(* ------------------------------------------------------------------ *)

(* C11: every claim that finds a buffer locks the lowest-indexed        *)
(* unlocked buffer and nothing else; and after NUM_SVC_BUFS claims      *)
(* that found a buffer, starting with every buffer unlocked and with    *)
(* no release in between, every further claim returns -ENOBUFS and      *)
(* leaves the pool as it was.                                           *)
C11_ExhaustedAfterN ==
  /\ \A k \in 1 .. Len(ops) :
       Acquired(ops[k]) =>
         \E b \in Unlocked(ops[k].before) :
           /\ \A j \in Unlocked(ops[k].before) : b <= j
           /\ ops[k].h = BufHandle(b)
           /\ ops[k].after.lock = [ ops[k].before.lock EXCEPT ![b] = TRUE ]
  /\ \A k \in 1 .. Len(ops) : \A m \in 1 .. Len(ops) :
       ( /\ k + NUM_SVC_BUFS <= m
         /\ Unlocked(ops[k].before) = Bufs
         /\ \A j \in k .. (k + NUM_SVC_BUFS - 1) : Acquired(ops[j])
         /\ \A j \in k .. m : ops[j].op = "acquire" )
       => /\ Exhausted(ops[m])
          /\ ops[m].after = ops[m].before

(* C11 witness: NUM_SVC_BUFS claims found a buffer, the first with the  *)
(* whole pool unlocked, and the two claims after them returned          *)
(* -ENOBUFS.                                                            *)
C11_Witness ==
  /\ Len(ops) = NUM_SVC_BUFS + 2
  /\ Unlocked(ops[1].before) = Bufs
  /\ \A j \in 1 .. NUM_SVC_BUFS : Acquired(ops[j])
  /\ Exhausted(ops[NUM_SVC_BUFS + 1])
  /\ Exhausted(ops[NUM_SVC_BUFS + 2])

(* ------------------------------------------------------------------ *)
(* C12                                                                  *)
(* ------------------------------------------------------------------ *)

(* C12: a claim followed by the release of the claimed buffer leaves as *)
(* many buffers unlocked as before the claim, and a second release of   *)
(* the same address leaves the lock flags and the unlocked count as the *)
(* first release left them.                                             *)
C12_ReleaseRestoresAndIsIdempotent ==
  \A k \in 1 .. (Len(ops) - 1) :
    /\ ( /\ Acquired(ops[k])
         /\ ops[k + 1].op = "release"
         /\ ops[k + 1].h = ops[k].h )
       => Cardinality(Unlocked(ops[k + 1].after))
            = Cardinality(Unlocked(ops[k].before))
    /\ ( /\ ops[k].op = "release"
         /\ ops[k + 1].op = "release"
         /\ ops[k + 1].h = ops[k].h )
       => /\ ops[k + 1].after.lock = ops[k].after.lock
          /\ Cardinality(Unlocked(ops[k + 1].after))
               = Cardinality(Unlocked(ops[k].after))

(* C12 witness: with one buffer already claimed, the second buffer was  *)
(* claimed, released and released again.                                *)
C12_Witness ==
  /\ Len(ops) = 4
  /\ Acquired(ops[1])
  /\ Acquired(ops[2])
  /\ ops[3].op = "release" /\ ops[3].h = ops[2].h
  /\ ops[4].op = "release" /\ ops[4].h = ops[2].h
  /\ Unlocked(ops[4].after) = Unlocked(ops[2].before)

(* ------------------------------------------------------------------ *)
(* C13                                                                  *)
(* ------------------------------------------------------------------ *)

(* C13: s10_unlock_bufs called with NULL or with an address that is no  *)
(* buffer's leaves every lock flag, buffer pointer and DMA mapping as   *)
(* it was and returns to its caller.                                    *)
C13_UnknownHandleChangesNothing ==
  \A k \in 1 .. Len(ops) :
    (ops[k].op = "release" /\ ops[k].h \in { NullHandle, UnknownHandle })
      => /\ ops[k].after = ops[k].before
         /\ ops[k].ret = 0

(* C13 witness: with a buffer locked and mapped, s10_unlock_bufs was    *)
(* called with an unknown address and then with NULL.                   *)
C13_Witness ==
  /\ Len(ops) = 3
  /\ Acquired(ops[1])
  /\ ops[1].after.dma_mapped[0]
  /\ ops[2].op = "release" /\ ops[2].h = UnknownHandle
  /\ ops[3].op = "release" /\ ops[3].h = NullHandle
  /\ ops[3].after.lock[0]

(* ------------------------------------------------------------------ *)
(* Claimers racing for the buffers                                      *)
(* ------------------------------------------------------------------ *)

(* What no claimer writes. *)
raceFrame == << phase, info_flags, ctype_flags, fw_version, status, done,
                count, off, ret, wait_status, timeout, msg, total, envVars,
                histVars, allBufferDone, waited, data, is_smmu_enabled, ops,
                snap,
                recVars >>

(* The scheduler takes the processor from the running caller of         *)
(* s10_send_buf and gives it to the other one.                          *)
RaceSwitch ==
  /\ cur' = CHOOSE t \in Threads : t # cur
  /\ other' = [ pc |-> pc, i |-> i, sent |-> sent ]
  /\ pc' = other.pc
  /\ i' = other.i
  /\ sent' = other.sent
  /\ UNCHANGED << raceFrame, lock, svc_buf, dma_mapped, fb_i, num_free,
                  claimed >>
  /\ UNCHANGED answered
  /\ UNCHANGED tearVars

(* The running thread enters s10_send_buf. *)
RaceCall ==
  /\ pc = "race"
  /\ pc' = "sb_scan"
  /\ i' = 0
  /\ sent' = 0
  /\ UNCHANGED << raceFrame, lock, poolVars, raceVars >>
  /\ UNCHANGED answered
  /\ UNCHANGED tearVars

(* The scan of the running thread broke at buffer i: the buffer is      *)
(* handed to the remote and the thread holds it until it is given back. *)
RaceClaimed ==
  /\ pc = "sb_send"
  /\ claimed' = [ claimed EXCEPT ![i] = @ \cup { cur } ]
  /\ pc' = "race"
  /\ i' = 0
  /\ UNCHANGED << raceFrame, lock, poolVars, sent, other, cur, fb_i,
                  num_free >>
  /\ UNCHANGED answered
  /\ UNCHANGED tearVars

(* The scan of the running thread found no buffer: -ENOBUFS. *)
RaceExhausted ==
  /\ pc = "w_reinit"
  /\ pc' = "race"
  /\ i' = 0
  /\ sent' = 0
  /\ UNCHANGED << raceFrame, lock, poolVars, raceVars >>
  /\ UNCHANGED answered
  /\ UNCHANGED tearVars

(* The remote gives back a buffer a caller of s10_send_buf handed to    *)
(* it: s10_unlock_bufs in the callback.                                 *)
RaceRelease ==
  /\ \E b \in Bufs :
       /\ claimed[b] \cap Threads # {}
       /\ LET P == s10_unlock_bufs(Pool, BufHandle(b))
          IN /\ lock' = P.lock
             /\ dma_mapped' = P.dma_mapped
       /\ claimed' = [ claimed EXCEPT ![b] = @ \ Threads ]
  /\ UNCHANGED << raceFrame, pc, i, sent, svc_buf, other, cur, fb_i,
                  num_free >>
  /\ UNCHANGED answered
  /\ UNCHANGED tearVars

(* One iteration of s10_free_buffers that frees every buffer whose      *)
(* pointer is set, without test_and_set_bit_lock.                       *)
s10_free_buffers_iter_no_test ==
  /\ fb_i < NUM_SVC_BUFS
  /\ IF ~svc_buf[fb_i]
     THEN /\ num_free' = num_free + 1
          /\ UNCHANGED << lock, svc_buf, claimed, freed >>
     ELSE /\ lock' = [ lock EXCEPT ![fb_i] = TRUE ]
          /\ freed' = [ freed EXCEPT ![fb_i] = @ + 1 ]
          /\ svc_buf' = [ svc_buf EXCEPT ![fb_i] = FALSE ]
          /\ num_free' = num_free + 1
          /\ claimed' = [ claimed EXCEPT ![fb_i] = @ \cup { "s10_free_buffers" } ]
  /\ fb_i' = fb_i + 1
  /\ UNCHANGED << raceFrame, pc, i, sent, dma_mapped, other, cur >>
  /\ UNCHANGED answered
  /\ UNCHANGED rm_i

(* One iteration of s10_free_buffers that counts a locked buffer as     *)
(* free although it leaves it alone.                                    *)
s10_free_buffers_iter_counts_locked ==
  /\ fb_i < NUM_SVC_BUFS
  /\ IF ~svc_buf[fb_i]
     THEN /\ num_free' = num_free + 1
          /\ UNCHANGED << lock, svc_buf, claimed, freed >>
     ELSE IF ~lock[fb_i]
          THEN /\ lock' = [ lock EXCEPT ![fb_i] = TRUE ]
               /\ freed' = [ freed EXCEPT ![fb_i] = @ + 1 ]
               /\ svc_buf' = [ svc_buf EXCEPT ![fb_i] = FALSE ]
               /\ num_free' = num_free + 1
               /\ claimed' = [ claimed EXCEPT
                                 ![fb_i] = @ \cup { "s10_free_buffers" } ]
          ELSE /\ num_free' = num_free + 1
               /\ UNCHANGED << lock, svc_buf, claimed, freed >>
  /\ fb_i' = fb_i + 1
  /\ UNCHANGED << raceFrame, pc, i, sent, dma_mapped, other, cur >>
  /\ UNCHANGED answered
  /\ UNCHANGED rm_i

(* One iteration of the loop of s10_free_buffers: a buffer already      *)
(* freed is counted; a buffer whose test_and_set_bit_lock finds the bit *)
(* clear is freed, its pointer set to NULL, and counted; a locked       *)
(* buffer is left alone.                                                *)
s10_free_buffers_iter ==
  /\ fb_i < NUM_SVC_BUFS
  /\ IF ~svc_buf[fb_i]
     THEN /\ num_free' = num_free + 1
          /\ UNCHANGED << lock, svc_buf, claimed, freed >>
     ELSE IF ~lock[fb_i]
          THEN /\ lock' = [ lock EXCEPT ![fb_i] = TRUE ]
               /\ freed' = [ freed EXCEPT ![fb_i] = @ + 1 ]
               /\ svc_buf' = [ svc_buf EXCEPT ![fb_i] = FALSE ]
               /\ num_free' = num_free + 1
               /\ claimed' = [ claimed EXCEPT
                                 ![fb_i] = @ \cup { "s10_free_buffers" } ]
          ELSE UNCHANGED << lock, svc_buf, num_free, claimed, freed >>
  /\ fb_i' = fb_i + 1
  /\ UNCHANGED << raceFrame, pc, i, sent, dma_mapped, other, cur >>
  /\ UNCHANGED answered
  /\ UNCHANGED rm_i

(* Two threads are about to call s10_send_buf and s10_free_buffers is   *)
(* about to start its loop; every buffer is as s10_probe left it.       *)
RaceInit ==
  /\ pc = "race"
  /\ phase = "write"
  /\ info_flags = {}
  /\ ctype_flags = {}
  /\ fw_version = INVALID_FIRMWARE_VERSION
  /\ status = {}
  /\ lock = ProbedPool.lock
  /\ done = 0
  /\ count = MaxCount
  /\ off = 0
  /\ i = 0
  /\ ret = 0
  /\ sent = 0
  /\ wait_status = 0
  /\ timeout = 0
  /\ msg = NoMsg
  /\ outstanding = 0
  /\ cb = CbIdle
  /\ svc_done_calls = 1
  /\ consumedCompleted = FALSE
  /\ awaiting = FALSE
  /\ total = MaxCount
  /\ subs = << >>
  /\ allBufferDone = TRUE
  /\ waited = 0
  /\ data = NoData
  /\ answered = {}
  /\ svc_buf = ProbedPool.svc_buf
  /\ is_smmu_enabled = FALSE
  /\ dma_mapped = ProbedPool.dma_mapped
  /\ ops = << >>
  /\ snap = ProbedPool
  /\ other = [ pc |-> "race", i |-> 0, sent |-> 0 ]
  /\ cur = "t1"
  /\ fb_i = 0
  /\ num_free = 0
  /\ claimed = [ b \in Bufs |-> {} ]
  /\ freed = [ b \in Bufs |-> 0 ]
  /\ rm_i = NUM_SVC_BUFS
  /\ rec = "none"
  /\ cmds = << >>
  /\ held = {}
  /\ delivered = {}
  /\ obtained = [ b \in Bufs |-> IF svc_buf[b] THEN 1 ELSE 0 ]

RaceNext ==
  \/ RaceSwitch
  \/ RaceCall
  \/ s10_send_buf_scan
  \/ RaceClaimed
  \/ RaceExhausted
  \/ RaceRelease
  \/ s10_free_buffers_iter

(* Two scans of s10_send_buf, the loop of s10_free_buffers and the      *)
(* releases of the callback in every interleaving of their bit          *)
(* operations.                                                          *)
RaceSpec == RaceInit /\ [][RaceNext]_vars

(* ------------------------------------------------------------------ *)
(* C19                                                                  *)
(* ------------------------------------------------------------------ *)

(* C19: no buffer is held by two claimers at once: a buffer has at most *)
(* one holder, a held buffer is locked, and a thread whose scan has     *)
(* just claimed a buffer is alone with it; only s10_free_buffers, as    *)
(* the holder, frees the memory of a buffer.                            *)
C19_NoDoubleClaim ==
  /\ \A b \in Bufs :
       /\ Cardinality(claimed[b]) <= 1
       /\ claimed[b] # {} => lock[b]
       /\ ~svc_buf[b] => claimed[b] = { "s10_free_buffers" }
  /\ pc = "sb_send" => (lock[i] /\ claimed[i] = {})
  /\ other.pc = "sb_send" => (lock[other.i] /\ claimed[other.i] = {})
  /\ (pc = "sb_send" /\ other.pc = "sb_send") => i # other.i

(* C19 witness: both threads have just claimed a buffer, one the first  *)
(* and one the second, s10_free_buffers holds the third, and the fourth *)
(* is held after having been given back once and claimed again.         *)
C19_Witness ==
  /\ pc = "sb_send"
  /\ other.pc = "sb_send"
  /\ { i, other.i } = { 0, 1 }
  /\ claimed[2] = { "s10_free_buffers" }
  /\ claimed[3] \cap Threads # {}

(* ------------------------------------------------------------------ *)
(* C25                                                                  *)
(* ------------------------------------------------------------------ *)

(* C25: s10_ops_write_init returns 0 exactly when COMMAND_RECONFIG was  *)
(* accepted by the channel, the wait that followed was signaled, and    *)
(* SVC_STATUS_OK was found set and cleared.  A rejected send returns    *)
(* the send's error, a timed-out wait returns -ETIMEDOUT, and a         *)
(* signaled wait that finds OK not set returns -ETIMEDOUT too.          *)
C25_BeginResult ==
  [][ /\ (pc = "wi_send" /\ pc' # pc)
           => \/ pc' = "wi_wait" /\ awaiting'
              \/ pc' = "wi_done" /\ ret' \in SvcSendResults \ { 0 }
      /\ (pc = "wi_wait" /\ pc' # pc)
           => IF done > 0
              THEN pc' = "wi_test_ok"
              ELSE pc' = "wi_done" /\ ret' = -Errno.ETIMEDOUT
      /\ (pc = "wi_test_ok" /\ pc' # pc)
           => IF "OK" \in status
              THEN pc' = "wi_locks" /\ ret' = 0 /\ "OK" \notin status'
              ELSE pc' = "wi_done" /\ ret' = -Errno.ETIMEDOUT
      /\ (pc = "wi_locks" /\ pc' # pc) => (pc' = "wi_done" /\ ret' = 0)
      /\ (pc = "wi_done" /\ pc' # pc)
           => /\ pc' = "idle"
              /\ ret' = ret
              /\ phase' = IF ret = 0 THEN "write_init_ok"
                                     ELSE "write_init_failed"
    ]_vars

(* C25 witness: begin has returned 0, having cleared SVC_STATUS_OK. *)
C25_Witness ==
  /\ pc = "idle"
  /\ phase = "write_init_ok"
  /\ ret = 0
  /\ "OK" \notin status
  /\ svc_done_calls = 1

(* ------------------------------------------------------------------ *)
(* C27                                                                  *)
(* ------------------------------------------------------------------ *)

(* The bytes of the accepted data submits of the running push. *)
RECURSIVE SubmittedBytes(_)
SubmittedBytes(s) ==
  IF s = << >> THEN 0 ELSE s[1][2] + SubmittedBytes(Tail(s))

(* C27: s10_ops_write returns 0 only when every byte of the input has   *)
(* gone into an accepted COMMAND_RECONFIG_DATA_SUBMIT and all           *)
(* NUM_SVC_BUFS buffers are unlocked; every other return is negative.   *)
(* While the call runs, count is the input less the bytes submitted.    *)
C27_SuccessAllSentAllFree ==
  /\ (pc = "idle" /\ phase = "write_ok")
       => (ret = 0 /\ SubmittedBytes(subs) = total /\ InUse = {})
  /\ (pc = "idle" /\ phase = "write_failed") => ret < 0
  /\ phase = "write" => count + SubmittedBytes(subs) = total

(* C27 witness: a push of one buffer and one byte has returned 0 after  *)
(* two accepted submits.                                                *)
C27_Witness ==
  /\ pc = "idle"
  /\ phase = "write_ok"
  /\ ret = 0
  /\ total = SVC_BUF_SIZE + 1
  /\ SubmittedBytes(subs) = total
  /\ InUse = {}

(* ------------------------------------------------------------------ *)
(* C28                                                                  *)
(* ------------------------------------------------------------------ *)

(* This step hands a request with the given command to the channel. *)
Sends(command) ==
  /\ pc \in SendPcs
  /\ pc' # pc
  /\ msg'.command = command

(* C28: within one s10_ops_write call the unsent byte count never       *)
(* grows, COMMAND_RECONFIG_DATA_SUBMIT is sent only while it is         *)
(* positive and COMMAND_RECONFIG_DATA_CLAIM only when it is 0, so every *)
(* submit precedes every claim and nothing is submitted once all bytes  *)
(* are handed over.  With no bytes left the call goes on to a claim     *)
(* exactly when it finds a buffer locked; when it finds all buffers     *)
(* unlocked it returns 0 and sends nothing.                             *)
C28_SubmitsBeforeClaims ==
  [][ /\ (phase = "write" /\ phase' = "write") => count' <= count
      /\ Sends("COMMAND_RECONFIG_DATA_SUBMIT") => count > 0
      /\ Sends("COMMAND_RECONFIG_DATA_CLAIM") => (count = 0 /\ count' = 0)
      /\ (pc = "w_reinit" /\ pc' # pc)
           => pc' = IF count > 0 THEN "sb_scan" ELSE "w_count"
      /\ (pc = "w_count" /\ pc' # pc)
           => /\ count = 0
              /\ IF InUse # {}
                 THEN pc' = "w_claim"
                 ELSE /\ pc' = "idle"
                      /\ phase' = "write_ok"
                      /\ UNCHANGED << outstanding, awaiting >>
    ]_vars

(* C28 witness: a COMMAND_RECONFIG_DATA_CLAIM has been accepted after   *)
(* NUM_SVC_BUFS + 1 submits took all bytes, with a buffer still locked. *)
C28_Witness ==
  /\ pc = "w_wait"
  /\ msg.command = "COMMAND_RECONFIG_DATA_CLAIM"
  /\ count = 0
  /\ Len(subs) = NUM_SVC_BUFS + 1
  /\ InUse # {}

(* ------------------------------------------------------------------ *)
(* C29                                                                  *)
(* ------------------------------------------------------------------ *)

(* s10_ops_write leaves its loop with the error r. *)
WriteFails(r) ==
  /\ pc' = "idle"
  /\ phase' = "write_failed"
  /\ ret' = r

(* C29: after each wait of s10_ops_write's loop the status bits are     *)
(* tested in this order: BUFFER_DONE found set is cleared and the loop  *)
(* continues; else BUFFER_SUBMITTED found set is cleared and the loop   *)
(* continues; else ERROR found set is cleared and the call fails with   *)
(* -EFAULT; else a wait that timed out fails the call with -ETIMEDOUT,  *)
(* and a wait that was signaled lets the loop go on.  So a timed-out    *)
(* wait ends in -ETIMEDOUT exactly when each of the three bits was      *)
(* found clear at its test.                                             *)
C29_StreamingTests ==
  [][ /\ (pc = "w_wait" /\ pc' # pc)
           => (pc' = "w_test_done" /\ (wait_status' = 0 <=> done = 0))
      /\ (pc = "w_test_done" /\ pc' # pc)
           => IF "BUFFER_DONE" \in status
              THEN /\ status' = status \ { "BUFFER_DONE" }
                   /\ pc' = "w_reinit"
                   /\ ret' = 0
              ELSE pc' = "w_test_submitted" /\ UNCHANGED << status, wait_status >>
      /\ (pc = "w_test_submitted" /\ pc' # pc)
           => IF "BUFFER_SUBMITTED" \in status
              THEN /\ status' = status \ { "BUFFER_SUBMITTED" }
                   /\ pc' = "w_reinit"
                   /\ ret' = 0
              ELSE pc' = "w_test_error" /\ UNCHANGED << status, wait_status >>
      /\ (pc = "w_test_error" /\ pc' # pc)
           => IF "ERROR" \in status
              THEN status' = status \ { "ERROR" } /\ WriteFails(-Errno.EFAULT)
              ELSE /\ UNCHANGED status
                   /\ IF wait_status = 0
                      THEN WriteFails(-Errno.ETIMEDOUT)
                      ELSE pc' = "w_reinit" /\ phase' = "write"
      /\ (pc \in WriteTestPcs /\ WriteFails(-Errno.ETIMEDOUT))
           => (pc = "w_test_error" /\ wait_status = 0 /\ "ERROR" \notin status)
    ]_vars

(* C29 witness: a wait of the loop timed out after two accepted         *)
(* submits, none of the three bits was found set, and the call has      *)
(* returned -ETIMEDOUT.                                                 *)
C29_Witness ==
  /\ pc = "idle"
  /\ phase = "write_failed"
  /\ ret = -Errno.ETIMEDOUT
  /\ Len(subs) = 2
  /\ status \cap { "BUFFER_DONE", "BUFFER_SUBMITTED", "ERROR" } = {}

(* ------------------------------------------------------------------ *)
(* C30                                                                  *)
(* ------------------------------------------------------------------ *)

(* C30: the loop of s10_ops_write_complete has four exits and no other: *)
(* a rejected COMMAND_RECONFIG_STATUS ends the call with the send's     *)
(* error, a timed-out wait with -ETIMEDOUT, COMPLETED found set (and    *)
(* cleared) with 0, and, COMPLETED not being set, ERROR found set (and  *)
(* cleared) with -EFAULT.  A signaled wait that finds neither bit goes  *)
(* back to send another COMMAND_RECONFIG_STATUS.                        *)
C30_FinishExits ==
  [][ /\ (pc = "wc_reinit" /\ pc' # pc) => pc' = "wc_send"
      /\ (pc = "wc_send" /\ pc' # pc)
           => /\ msg'.command = "COMMAND_RECONFIG_STATUS"
              /\ \/ pc' = "wc_wait" /\ awaiting'
                 \/ pc' = "wc_done" /\ ret' \in SendErrors
      /\ (pc = "wc_wait" /\ pc' # pc)
           => IF done > 0
              THEN pc' = "wc_test_completed" /\ ret' = 0
              ELSE pc' = "wc_done" /\ ret' = -Errno.ETIMEDOUT
      /\ (pc = "wc_test_completed" /\ pc' # pc)
           => IF "COMPLETED" \in status
              THEN /\ status' = status \ { "COMPLETED" }
                   /\ pc' = "wc_done"
                   /\ ret' = 0
              ELSE pc' = "wc_test_error" /\ UNCHANGED status
      /\ (pc = "wc_test_error" /\ pc' # pc)
           => IF "ERROR" \in status
              THEN /\ status' = status \ { "ERROR" }
                   /\ pc' = "wc_done"
                   /\ ret' = -Errno.EFAULT
              ELSE pc' = "wc_reinit" /\ ret' = 0 /\ UNCHANGED status
      /\ (pc = "wc_done" /\ pc' # pc)
           => /\ pc' = "idle"
              /\ ret' = ret
              /\ phase' = IF ret = 0 THEN "done" ELSE "write_complete_failed"
      /\ (phase = "write_complete" /\ phase' # phase) => pc = "wc_done"
    ]_vars

(* C30 witness: a wait of finish was signaled after some time with      *)
(* neither COMPLETED nor ERROR set, and another COMMAND_RECONFIG_STATUS *)
(* has been sent and is waited for with the time that was left.         *)
C30_Witness ==
  /\ pc = "wc_wait"
  /\ awaiting
  /\ msg.command = "COMMAND_RECONFIG_STATUS"
  /\ timeout < S10_RECONFIG_TIMEOUT

(* ------------------------------------------------------------------ *)
(* s10_ops_write_init called between sessions                           *)
(* ------------------------------------------------------------------ *)

(* The fpga-mgr core calls s10_ops_write_init, as in CallWriteInit; the *)
(* pool at the call is kept in snap.                                    *)
BeginCall ==
  /\ pc = "idle"
  /\ \E f \in SUBSET InfoFlagBits : info_flags' = f
  /\ pc' = "wi_flags"
  /\ phase' = "write_init"
  /\ ret' = 0
  /\ svc_done_calls' = 0
  /\ allBufferDone' = TRUE
  /\ consumedCompleted' = FALSE
  /\ subs' = << >>
  /\ total' = 0
  /\ snap' = Pool
  /\ UNCHANGED << ctype_flags, fw_version, status, lock, done, count, off, i,
                  sent, wait_status, timeout, msg, envVars, awaiting >>
  /\ UNCHANGED waited
  /\ cmds' = << >>
  /\ delivered' = {}
  /\ UNCHANGED << auxRest, dma_mapped, held >>

(* No entry point is running.  An earlier session may have been         *)
(* aborted: any of the buffers may be locked, a request may still be    *)
(* unanswered, and status bits and a completion of an earlier           *)
(* notification may be left over.                                       *)
BeginInit ==
  /\ pc = "idle"
  /\ phase = "none"
  /\ info_flags = {}
  /\ ctype_flags = {}
  /\ fw_version \in FwVersions
  /\ status \in SUBSET { b \in StatusBits : BitIndex(b) <= BitIndex("ERROR") }
  /\ lock \in [ Bufs -> BOOLEAN ]
  /\ done \in { 0, 1 }
  /\ count = 0
  /\ off = 0
  /\ i = 0
  /\ ret = 0
  /\ sent = 0
  /\ wait_status = 0
  /\ timeout = 0
  /\ msg = NoMsg
  /\ outstanding \in 0 .. MaxInflight
  /\ cb = CbIdle
  /\ svc_done_calls = 0
  /\ consumedCompleted = FALSE
  /\ awaiting = FALSE
  /\ total = 0
  /\ subs = << >>
  /\ allBufferDone = TRUE
  /\ waited = 0
  /\ AuxInit

BeginNext ==
  \/ BeginCall
  \/ s10_ops_write_init_flags
  \/ s10_ops_write_init_reinit
  \/ s10_ops_write_init_send
  \/ s10_ops_write_init_wait
  \/ s10_ops_write_init_test_ok
  \/ s10_ops_write_init_locks
  \/ s10_ops_write_init_done
  \/ CallbackStep

BeginSpec == BeginInit /\ [][BeginNext]_vars

(* ------------------------------------------------------------------ *)
(* C26                                                                  *)
(* ------------------------------------------------------------------ *)

(* s10_ops_write_init has returned with the given outcome. *)
BeginReturned(ph) == pc = "idle" /\ phase = ph

(* C26: when s10_ops_write_init returns 0 all NUM_SVC_BUFS buffers are  *)
(* unlocked, and when it returns a failure the lock flags of all        *)
(* buffers are exactly as they were when it was called.                 *)
C26_FailedBeginKeepsLocks ==
  [][ (phase = "write_init" /\ pc' = "idle")
        => IF phase' = "write_init_ok"
           THEN \A b \in Bufs : ~lock'[b]
           ELSE lock' = snap.lock ]_vars

(* C26 as it holds: after every successful s10_ops_write_init all       *)
(* buffers are unlocked; a failed one has not written any lock flag:    *)
(* the lock reset is the only step of the call that writes them and it  *)
(* is reached only with ret = 0, so after a failed call no buffer is    *)
(* locked that was not locked before.  Buffers that a notification      *)
(* gave back while the call ran are unlocked all the same.              *)
C26_FailedBeginLocksNothing ==
  /\ [](BeginReturned("write_init_ok") => InUse = {})
  /\ [](BeginReturned("write_init_failed")
          => \A b \in Bufs : lock[b] => snap.lock[b])
  /\ [](pc = "wi_locks" => ret = 0)
  /\ [][ (phase = "write_init" /\ pc' # pc)
           => IF pc = "wi_locks" THEN lock' = [ b \in Bufs |-> FALSE ]
                                 ELSE lock' = lock ]_vars

(* C26 witness: a begin that found two buffers locked is about to       *)
(* return a failure; one of the two was given back by a notification    *)
(* while it ran, the other is still locked.                             *)
C26_Witness ==
  /\ pc = "wi_done"
  /\ ret < 0
  /\ Cardinality({ b \in Bufs : snap.lock[b] }) = 2
  /\ Cardinality(InUse) = 1
  /\ \A b \in Bufs : lock[b] => snap.lock[b]

(* ------------------------------------------------------------------ *)
(* C24                                                                  *)
(* ------------------------------------------------------------------ *)

(* The positions of the three reinit_completion calls. *)
ReinitPcs == { "wi_reinit", "w_reinit", "wc_reinit" }

(* C24: reinit_completion leaves the completion unset before every     *)
(* send of s10_ops_write_init, s10_ops_write and                        *)
(* s10_ops_write_complete, and no notification that fired before a     *)
(* send makes the wait that follows the send return signaled: when a    *)
(* request is accepted the completion is still unset, so the wait can   *)
(* only be satisfied by a complete() that comes after the send.         *)
C24_NoStaleSignal ==
  [][ /\ (pc \in ReinitPcs /\ pc' # pc) => done' = 0
      /\ AcceptedSend => done = 0 ]_vars

(* ------------------------------------------------------------------ *)
(* The driver on a system with the SMMU enabled                         *)
(* ------------------------------------------------------------------ *)

(* s10_probe read the "altr,smmu_enable_quirk" property as true:        *)
(* is_smmu_enabled is true and s10_send_buf maps each buffer before it  *)
(* sends it.                                                            *)
MapInit ==
  /\ PumpInit
  /\ data = NoData
  /\ answered = {}
  /\ svc_buf = ProbedPool.svc_buf
  /\ dma_mapped = ProbedPool.dma_mapped
  /\ is_smmu_enabled = TRUE
  /\ ops = << >>
  /\ snap = ProbedPool
  /\ other = [ pc |-> "idle", i |-> 0, sent |-> 0 ]
  /\ cur = "t1"
  /\ fb_i = NUM_SVC_BUFS
  /\ num_free = 0
  /\ claimed = [ b \in Bufs |-> {} ]
  /\ freed = [ b \in Bufs |-> 0 ]
  /\ rm_i = NUM_SVC_BUFS
  /\ rec = "none"
  /\ cmds = << >>
  /\ held = {}
  /\ delivered = {}
  /\ obtained = [ b \in Bufs |-> IF svc_buf[b] THEN 1 ELSE 0 ]

(* Bytes of the image pushed on the SMMU system: two data submits. *)
MapCount == SVC_BUF_SIZE + 1

(* The fpga-mgr core loads images of MapCount bytes, without flags, in  *)
(* one s10_ops_write call per session.                                  *)
MapCallWriteInit == CallWriteInit /\ info_flags' = {}

MapCallWrite == CallWrite /\ phase = "write_init_ok" /\ count' = MapCount

(* s10_ops_write_init, s10_ops_write and the callback, as in Next. *)
MapNext ==
  \/ MapCallWriteInit
  \/ MapCallWrite
  \/ s10_ops_write_init_flags
  \/ s10_ops_write_init_reinit
  \/ s10_ops_write_init_send
  \/ s10_ops_write_init_wait
  \/ s10_ops_write_init_test_ok
  \/ s10_ops_write_init_locks
  \/ s10_ops_write_init_done
  \/ s10_ops_write_reinit
  \/ s10_send_buf_scan
  \/ s10_send_buf_send
  \/ s10_ops_write_count
  \/ s10_ops_write_claim
  \/ s10_ops_write_wait
  \/ s10_ops_write_test_done
  \/ s10_ops_write_test_submitted
  \/ s10_ops_write_test_error
  \/ CallbackStep

MapSpec == MapInit /\ [][MapNext]_vars

(* ------------------------------------------------------------------ *)
(* C23                                                                  *)
(* ------------------------------------------------------------------ *)

(* C23: a buffer has a live DMA mapping only while it is locked:        *)
(* whenever a buffer is unlocked, by s10_unlock_bufs, by a rejected     *)
(* data submit or by the lock reset of s10_ops_write_init, its mapping  *)
(* has been removed, so that after every step each mapped buffer is     *)
(* locked; and s10_send_buf never maps a buffer that still has a        *)
(* mapping.                                                             *)
C23_MappedOnlyWhileLocked ==
  [][ /\ \A b \in Bufs : dma_mapped'[b] => lock'[b]
      /\ (pc = "sb_send" /\ pc' # pc) => ~dma_mapped[i] ]_vars

(* ------------------------------------------------------------------ *)
(* Freeing the buffers: s10_free_buffers and s10_remove                 *)
(* ------------------------------------------------------------------ *)

(* What neither function writes. *)
tearFrame == << info_flags, ctype_flags, fw_version, status, done, count,
                off, i, sent, wait_status, timeout, msg, total, envVars,
                histVars, allBufferDone, waited, data, answered,
                is_smmu_enabled, ops, other, cur,
                recVars >>

(* s10_free_buffers is entered: i = 0, num_free = 0. *)
s10_free_buffers_call ==
  /\ pc \in { "tear", "fb_returned" }
  /\ pc' = "s10_free_buffers"
  /\ fb_i' = 0
  /\ num_free' = 0
  /\ snap' = Pool
  /\ UNCHANGED << tearFrame, phase, ret, lock, svc_buf, dma_mapped, claimed,
                  freed, rm_i >>

(* return num_free == NUM_SVC_BUFS, as 1 for true and 0 for false. *)
s10_free_buffers_return ==
  /\ pc = "s10_free_buffers"
  /\ fb_i = NUM_SVC_BUFS
  /\ ret' = IF num_free = NUM_SVC_BUFS THEN 1 ELSE 0
  /\ pc' = "fb_returned"
  /\ UNCHANGED << tearFrame, phase, lock, svc_buf, dma_mapped, snap, fb_i,
                  num_free, claimed, freed, rm_i >>

(* Between two calls the remote gives back a buffer that was in flight: *)
(* s10_unlock_bufs in the callback.                                     *)
TearRelease ==
  /\ pc \in { "tear", "fb_returned" }
  /\ \E b \in Bufs :
       /\ lock[b]
       /\ svc_buf[b]
       /\ LET P == s10_unlock_bufs(Pool, BufHandle(b))
          IN /\ lock' = P.lock
             /\ dma_mapped' = P.dma_mapped
  /\ UNCHANGED << tearFrame, pc, phase, ret, svc_buf, snap, fb_i, num_free,
                  claimed, freed, rm_i >>

(* The platform driver's remove callback is entered; the device was     *)
(* bound, so s10_probe allocated every buffer.                          *)
s10_remove_call ==
  /\ pc = "tear"
  /\ phase = "none"
  /\ pc' = "s10_remove"
  /\ rm_i' = 0
  /\ snap' = Pool
  /\ UNCHANGED << tearFrame, phase, ret, lock, svc_buf, dma_mapped, fb_i,
                  num_free, claimed, freed >>

(* One iteration of the loop of s10_remove: if (priv->svc_bufs[i].buf)  *)
(* stratix10_svc_free_memory(priv->chan, priv->svc_bufs[i].buf).        *)
s10_remove_iter ==
  /\ pc = "s10_remove"
  /\ rm_i < NUM_SVC_BUFS
  /\ freed' = IF svc_buf[rm_i] THEN [ freed EXCEPT ![rm_i] = @ + 1 ]
                               ELSE freed
  /\ rm_i' = rm_i + 1
  /\ UNCHANGED << tearFrame, pc, phase, ret, lock, svc_buf, dma_mapped, snap,
                  fb_i, num_free, claimed >>

(* fpga_mgr_unregister, stratix10_svc_free_channel, return 0. *)
s10_remove_return ==
  /\ pc = "s10_remove"
  /\ rm_i = NUM_SVC_BUFS
  /\ pc' = "removed"
  /\ phase' = "removed"
  /\ ret' = 0
  /\ UNCHANGED << tearFrame, lock, svc_buf, dma_mapped, snap, fb_i, num_free,
                  claimed, freed, rm_i >>

(* Either s10_probe is in its allocation loop and has allocated the     *)
(* first k buffers, or the device is bound with all NUM_SVC_BUFS        *)
(* buffers and no session running; an allocated buffer may be locked,   *)
(* in flight at the remote.                                             *)
TearInit ==
  /\ pc = "tear"
  /\ info_flags = {}
  /\ ctype_flags = {}
  /\ fw_version = INVALID_FIRMWARE_VERSION
  /\ status = {}
  /\ done = 0
  /\ count = 0
  /\ off = 0
  /\ i = 0
  /\ ret = 0
  /\ sent = 0
  /\ wait_status = 0
  /\ timeout = 0
  /\ msg = NoMsg
  /\ outstanding = 0
  /\ cb = CbIdle
  /\ svc_done_calls = 0
  /\ consumedCompleted = FALSE
  /\ awaiting = FALSE
  /\ total = 0
  /\ subs = << >>
  /\ allBufferDone = TRUE
  /\ waited = 0
  /\ data = NoData
  /\ answered = {}
  /\ is_smmu_enabled \in BOOLEAN
  /\ \E k \in 0 .. NUM_SVC_BUFS :
       /\ svc_buf = [ b \in Bufs |-> b < k ]
       /\ phase = IF k = NUM_SVC_BUFS THEN "none" ELSE "probe"
  /\ lock \in { l \in [ Bufs -> BOOLEAN ] : \A b \in Bufs : l[b] => svc_buf[b] }
  /\ dma_mapped = [ b \in Bufs |-> is_smmu_enabled /\ lock[b] ]
  /\ ops = << >>
  /\ snap = Pool
  /\ other = [ pc |-> "idle", i |-> 0, sent |-> 0 ]
  /\ cur = "t1"
  /\ fb_i = NUM_SVC_BUFS
  /\ num_free = 0
  /\ claimed = [ b \in Bufs |-> {} ]
  /\ freed = [ b \in Bufs |-> 0 ]
  /\ rm_i = NUM_SVC_BUFS
  /\ rec = "none"
  /\ cmds = << >>
  /\ held = {}
  /\ delivered = {}
  /\ obtained = [ b \in Bufs |-> IF svc_buf[b] THEN 1 ELSE 0 ]

TearNext ==
  \/ s10_free_buffers_call
  \/ s10_free_buffers_iter
  \/ s10_free_buffers_return
  \/ TearRelease
  \/ s10_remove_call
  \/ s10_remove_iter
  \/ s10_remove_return

TearSpec == TearInit /\ [][TearNext]_vars

(* ------------------------------------------------------------------ *)
(* C21                                                                  *)
(* ------------------------------------------------------------------ *)

(* C21: s10_free_buffers frees exactly the buffers that hold memory and *)
(* are unlocked when it is called, and leaves every locked buffer with  *)
(* its memory; it returns true exactly when no buffer holds memory      *)
(* after the call, and false with at least one locked buffer left; and  *)
(* over any number of calls no buffer's memory is freed twice.          *)
C21_FreeBuffersContract ==
  /\ \A b \in Bufs : freed[b] <= 1
  /\ pc = "s10_free_buffers" =>
       \A b \in Bufs :
         IF b < fb_i /\ snap.svc_buf[b] /\ ~snap.lock[b]
         THEN ~svc_buf[b] /\ freed[b] = 1
         ELSE svc_buf[b] = snap.svc_buf[b] /\ (svc_buf[b] => freed[b] = 0)
  /\ (pc = "s10_free_buffers" /\ fb_i = NUM_SVC_BUFS) =>
       /\ num_free = NUM_SVC_BUFS <=> \A b \in Bufs : ~svc_buf[b]
       /\ num_free # NUM_SVC_BUFS <=> \E b \in Bufs : svc_buf[b] /\ snap.lock[b]
  /\ pc = "fb_returned" =>
       /\ ret \in { 0, 1 }
       /\ ret = 1 <=> \A b \in Bufs : ~svc_buf[b]

(* C21 witness: a second call of s10_free_buffers has returned true:    *)
(* the first left a locked buffer, which was then given back, and the   *)
(* second freed it and counted the buffers freed before.                *)
C21_Witness ==
  /\ pc = "fb_returned"
  /\ ret = 1
  /\ \E b \in Bufs : snap.svc_buf[b] /\ ~snap.lock[b]
  /\ \E b \in Bufs : ~snap.svc_buf[b] /\ freed[b] = 1
  /\ \A b \in Bufs : freed[b] = 1

(* ------------------------------------------------------------------ *)
(* C22                                                                  *)
(* ------------------------------------------------------------------ *)

(* C22: s10_remove does not free the memory of a buffer that is still   *)
(* locked: an iteration of its loop at a locked buffer makes no         *)
(* stratix10_svc_free_memory call.                                      *)
C22_RemoveLeavesLocked ==
  [][ (pc = "s10_remove" /\ rm_i' = rm_i + 1 /\ lock[rm_i])
        => freed'[rm_i] = freed[rm_i] ]_vars

(* ------------------------------------------------------------------ *)
(* C39                                                                  *)
(* ------------------------------------------------------------------ *)

(* C39: an iteration of s10_ops_write's loop consumes at most one       *)
(* progress bit.  The SVC_STATUS_BUFFER_DONE test clears that bit alone *)
(* and starts the next iteration when it finds it set, and changes      *)
(* nothing and goes on to the SVC_STATUS_BUFFER_SUBMITTED test when it  *)
(* does not; that test, reached only then, clears its bit alone and     *)
(* starts the next iteration, or changes nothing and goes on to the     *)
(* SVC_STATUS_ERROR test.  An iteration that consumed a progress bit    *)
(* leaves SVC_STATUS_ERROR as it was and sets ret to 0.                 *)
C39_OneProgressBitPerIteration ==
  [][ /\ (pc = "w_test_done" /\ pc' # pc)
           => IF "BUFFER_DONE" \in status
              THEN /\ status' = status \ { "BUFFER_DONE" }
                   /\ pc' = "w_reinit"
              ELSE /\ status' = status
                   /\ pc' = "w_test_submitted"
      /\ (pc = "w_test_submitted" /\ pc' # pc)
           => IF "BUFFER_SUBMITTED" \in status
              THEN /\ status' = status \ { "BUFFER_SUBMITTED" }
                   /\ pc' = "w_reinit"
              ELSE /\ status' = status
                   /\ pc' = "w_test_error"
      /\ (pc \in { "w_test_done", "w_test_submitted" } /\ pc' = "w_reinit")
           => /\ ("ERROR" \in status') = ("ERROR" \in status)
              /\ Cardinality(status \ status') = 1
              /\ ret' = 0
    ]_vars

(* C39 witness: the loop is back at its top after an accepted submit    *)
(* with SVC_STATUS_BUFFER_DONE consumed and both                        *)
(* SVC_STATUS_BUFFER_SUBMITTED and SVC_STATUS_ERROR still set.          *)
C39_Witness ==
  /\ pc = "w_reinit"
  /\ phase = "write"
  /\ sent > 0
  /\ ret = 0
  /\ "BUFFER_DONE" \notin status
  /\ { "BUFFER_SUBMITTED", "ERROR" } \subseteq status

(* ------------------------------------------------------------------ *)
(* C32                                                                  *)
(* ------------------------------------------------------------------ *)

(* The accepted submits s start at byte 0 and each starts where the one *)
(* before it ended.                                                     *)
Contiguous(s) ==
  \A k \in 1 .. Len(s) :
    /\ s[k][1] = SubmittedBytes(SubSeq(s, 1, k - 1))
    /\ s[k][2] > 0

(* C32: a data submit whose send fails unlocks the buffer s10_send_buf  *)
(* had just locked, and no other, returns the negative error, and       *)
(* leaves the cursor, the remaining count and the accepted submits as   *)
(* they were; only an accepted submit moves the cursor and the count,   *)
(* by the length it carried.  So whatever the failures in between, the  *)
(* accepted submits are contiguous from byte 0 up to the cursor: no     *)
(* byte is skipped and none is in two accepted submits.                 *)
C32_FailedSubmitOfferedAgain ==
  /\ [](phase = "write" =>
          /\ Contiguous(subs)
          /\ off = SubmittedBytes(subs)
          /\ count + off = total)
  /\ [][  /\ (pc = "sb_send" /\ pc' = "w_reinit")
               => /\ sent' < 0
                  /\ lock' = [ lock EXCEPT ![i] = FALSE ]
                  /\ UNCHANGED << count, off, subs, outstanding >>
          /\ (pc = "sb_send" /\ pc' = "w_wait")
               => /\ sent' = XferSize(count)
                  /\ subs' = Append(subs, << off, sent' >>)
                  /\ count' = count - sent'
                  /\ off' = off + sent'
                  /\ lock' = lock
          /\ (phase = "write" /\ phase' = "write" /\ pc # "sb_send")
               => UNCHANGED << count, off, subs >>
        ]_vars

(* C32 witness: of an image of one buffer and one byte the first chunk  *)
(* was accepted in buffer 0; the submit of the last byte in buffer 1    *)
(* has just failed with -ENOMEM, the byte is still to be sent and       *)
(* buffer 1 is unlocked again.                                          *)
C32_Witness ==
  /\ pc = "w_reinit"
  /\ phase = "write"
  /\ sent = -Errno.ENOMEM
  /\ total = SVC_BUF_SIZE + 1
  /\ subs = << << 0, SVC_BUF_SIZE >> >>
  /\ count = 1
  /\ off = SVC_BUF_SIZE
  /\ InUse = { 0 }

(* ------------------------------------------------------------------ *)
(* The commands of a session                                            *)
(* ------------------------------------------------------------------ *)

(* Entries of cmds up to which a further s10_ops_write is followed. *)
MaxCmds == 5

SessInit == PumpInit /\ AuxInitKeeping("cmds")

(* Image lengths followed here: empty, one byte, one buffer and a byte. *)
SessLengths == { 0, 1, SVC_BUF_SIZE + 1 }

(* The fpga-mgr core calls s10_ops_write once more (one call per chunk  *)
(* of the image it was given).                                          *)
SessCallWrite ==
  /\ Len(cmds) < MaxCmds
  /\ CallWrite
  /\ count' \in SessLengths

SessNext ==
  \/ CallWriteInit
  \/ SessCallWrite
  \/ CallWriteComplete
  \/ PumpStep
  \/ CallbackStep

(* The whole driver with the commands the channel accepted recorded.    *)
SessSpec == SessInit /\ [][SessNext]_vars

(* ------------------------------------------------------------------ *)
(* C31                                                                  *)
(* ------------------------------------------------------------------ *)

(* The command sequences of the state machine INIT -> STREAMING ->      *)
(* DRAINING -> AWAIT_COMPLETE -> DONE, a run of the same command once.  *)
StateMachineRuns ==
  { << "COMMAND_RECONFIG" >> \o s \o c \o << "COMMAND_RECONFIG_STATUS" >> :
      s \in { << >>, << "COMMAND_RECONFIG_DATA_SUBMIT" >> },
      c \in { << >>, << "COMMAND_RECONFIG_DATA_CLAIM" >> } }

SessionShape(c) ==
  \A k \in 1 .. Len(c) :
    /\ (c[k] = "COMMAND_RECONFIG") = (k = 1)
    /\ c[k] = "COMMAND_RECONFIG_STATUS" => k = Len(c)
    /\ c[k] = "COMMAND_RECONFIG_DATA_CLAIM"
         => (k > 1 /\ c[k - 1] = "COMMAND_RECONFIG_DATA_SUBMIT")

HeldInit == PumpInit /\ AuxInitKeeping("held")

(* s10_ops_write called with an image of one of the lengths SessLengths. *)
CallWriteShort == CallWrite /\ count' \in SessLengths

(* The four s10_unlock_bufs calls of a notification whose kaddr slots   *)
(* name buffers the remote was given and has not given back.            *)
HeldGiveBack ==
  /\ s10_receive_callback_unlock
  /\ \A b \in Bufs : (lock[b] /\ ~lock'[b]) => b \in held

HeldNext ==
  \/ CallWriteInit
  \/ CallWriteShort
  \/ CallWriteComplete
  \/ PumpStep
  \/ s10_receive_callback_bits
  \/ HeldGiveBack
  \/ s10_receive_callback_complete

(* The whole driver with the buffers handed to the remote recorded.     *)
HeldSpec == HeldInit /\ [][HeldNext]_vars

(* ------------------------------------------------------------------ *)
(* C35                                                                  *)
(* ------------------------------------------------------------------ *)

(* C35: every buffer the remote holds is locked, so that s10_send_buf   *)
(* cannot acquire it, copy into it or submit it again.                  *)
C35_RemoteHeldStayLocked == held \subseteq InUse

(* ------------------------------------------------------------------ *)
(* The conditions delivered while an entry point runs                   *)
(* ------------------------------------------------------------------ *)

DeliveredInit == PumpInit /\ AuxInitKeeping("delivered")

DeliveredNext ==
  \/ CallWriteInit
  \/ CallWriteShort
  \/ CallWriteComplete
  \/ PumpStep
  \/ CallbackStep

(* The whole driver with the SVC_STATUS_COMPLETED and SVC_STATUS_ERROR  *)
(* bits of the notifications delivered during each call recorded.       *)
DeliveredSpec == DeliveredInit /\ [][DeliveredNext]_vars

AwaitedInit == PumpInit /\ AuxInitKeeping("awaited")

(* The same with only the notifications recorded that were delivered    *)
(* while the call was in wait_for_completion_timeout.                   *)
AwaitedSpec == AwaitedInit /\ [][DeliveredNext]_vars

(* ------------------------------------------------------------------ *)
(* C36                                                                  *)
(* ------------------------------------------------------------------ *)

(* C36: s10_ops_write does not return 0 when a notification delivered   *)
(* while it ran, here even while it waited for the answer to one of its *)
(* requests, carried SVC_STATUS_ERROR.                                  *)
C36_ErrorNeverLost ==
  [][ (phase = "write" /\ phase' = "write_ok") => "ERROR" \notin delivered
    ]_vars

(* ------------------------------------------------------------------ *)
(* C37                                                                  *)
(* ------------------------------------------------------------------ *)

(* C37: s10_ops_write_complete returns 0 only when a notification       *)
(* delivered while it ran carried SVC_STATUS_COMPLETED, and -EFAULT     *)
(* only when one carried SVC_STATUS_ERROR: a bit left in priv->status   *)
(* from before the call does not decide its result.                     *)
C37_FinishDecidedByOwnAnswers ==
  [][ /\ (phase = "write_complete" /\ phase' = "done")
           => "COMPLETED" \in delivered
      /\ (phase = "write_complete" /\ phase' = "write_complete_failed"
            /\ ret' = -Errno.EFAULT)
           => "ERROR" \in delivered
    ]_vars

(* ------------------------------------------------------------------ *)
(* The callback, statement by statement, against the drain loop         *)
(* ------------------------------------------------------------------ *)

(* The iterations of s10_ops_write's loop once count is 0. *)
DrainStep ==
  \/ s10_ops_write_reinit
  \/ s10_ops_write_count
  \/ s10_ops_write_claim
  \/ s10_ops_write_wait
  \/ s10_ops_write_test_done
  \/ s10_ops_write_test_submitted
  \/ s10_ops_write_test_error

(* The messages followed against the drain loop: SVC_STATUS_BUFFER_DONE *)
(* alone, with SVC_STATUS_BUFFER_SUBMITTED or with SVC_STATUS_ERROR;    *)
(* in the first slot an address that is no buffer's or the second       *)
(* buffer's, the other slots all empty or all filled.                   *)
DrainData ==
  { d \in CbData :
      /\ "BUFFER_DONE" \in d.status
      /\ d.kaddr[1] \in { UnknownHandle, BufHandle(1) }
      /\ \/ \A k \in 2 .. Len(KaddrPos) : d.kaddr[k] = NullHandle
         \/ \A k \in 2 .. Len(KaddrPos) : d.kaddr[k] # NullHandle }

(* The remote answers with at most MaxNotifications different messages; *)
(* the requests sent after that time out.                               *)
DrainDeliver ==
  /\ CbDeliver
  /\ data' \in DrainData
  /\ Cardinality(answered') < MaxNotifications

DrainNext ==
  \/ DrainDeliver
  \/ s10_receive_callback_status
  \/ s10_receive_callback_kaddr
  \/ s10_receive_callback_complete
  \/ DrainStep

(* From the first wait of the drain loop, every buffer with the remote, *)
(* to the return of s10_ops_write.                                      *)
DrainSpec == CbInit /\ [][DrainNext]_vars

(* ------------------------------------------------------------------ *)
(* C33                                                                  *)
(* ------------------------------------------------------------------ *)

(* A BUFFER_DONE message with an address that is no buffer's. *)
ProtocolViolation(d) ==
  /\ "BUFFER_DONE" \in d.status
  /\ \E k \in 1 .. Len(KaddrPos) : d.kaddr[k] = UnknownHandle

(* The messages the callback was called with so far. *)
Delivered == answered \cup (IF data = NoData THEN {} ELSE { data })

(* C33: for a BUFFER_DONE message with an address that matches no       *)
(* buffer, the callback still copies the status bits, goes through all  *)
(* four s10_unlock_bufs calls so that the buffers named in the other    *)
(* slots are unlocked when it reaches complete(), and calls complete(); *)
(* and s10_ops_write fails only with -EFAULT for SVC_STATUS_ERROR found *)
(* set, with -ETIMEDOUT for a wait that timed out, or with the error of *)
(* a rejected send.                                                     *)
C33_ProtocolViolationNonFatal ==
  /\ []((cb = "complete" /\ ProtocolViolation(data))
          => \A b \in Returned(data) : ~lock[b])
  /\ [][  /\ (cb = "status" /\ cb' # "status" /\ ProtocolViolation(data))
              => CopiedBits(data.status) \subseteq status'
          /\ \A k \in 1 .. Len(KaddrPos) :
               (cb = KaddrPos[k] /\ cb' # cb /\ ProtocolViolation(data))
                 => cb' = IF k = Len(KaddrPos) THEN "complete"
                          ELSE KaddrPos[k + 1]
          /\ (cb = "complete" /\ cb' # "complete" /\ ProtocolViolation(data))
              => (cb' = CbIdle /\ done' = done + 1)
          /\ (phase = "write" /\ phase' = "write_failed")
              => \/ ret' = -Errno.EFAULT /\ "ERROR" \in status
                 \/ ret' = -Errno.ETIMEDOUT /\ wait_status = 0
                 \/ pc = "w_claim" /\ ret' \in SendErrors
    ]_vars

(* C33 witness: s10_ops_write returned 0 after a BUFFER_DONE message    *)
(* whose first address matches no buffer and whose other slots gave     *)
(* back three buffers.                                                  *)
C33_Witness ==
  /\ phase = "write_ok"
  /\ ret = 0
  /\ cb = CbIdle
  /\ \E d \in Delivered :
       /\ ProtocolViolation(d)
       /\ d.status = { "BUFFER_DONE" }
       /\ Returned(d) = { 0, NUM_SVC_BUFS - 2, NUM_SVC_BUFS - 1 }
  /\ \A b \in Bufs : ~lock[b]

(* ------------------------------------------------------------------ *)
(* s10_probe, then sessions, then the release of the device             *)
(* ------------------------------------------------------------------ *)

(* What s10_probe and s10_fw_version_callback leave alone. *)
probeFrame == << info_flags, ctype_flags, status, count, off, sent,
                 wait_status, timeout, cb, consumedCompleted, total, subs,
                 allBufferDone, waited, answered, dma_mapped,
                 is_smmu_enabled, ops, other, cur, claimed, rm_i, rec, held,
                 delivered >>

(* Status words the answer to COMMAND_FIRMWARE_VERSION may carry: the   *)
(* words of a notification, and SVC_STATUS_OK together with another     *)
(* bit.                                                                 *)
FwVersionWords == NotifyWords \cup { { "OK", "ERROR" } }

(* Values of *version in the answer. *)
FwReported == FwVersions \cup { 2 }

(* s10_probe up to the firmware-version request: priv is zeroed by      *)
(* devm_kzalloc, fw_version is set to the sentinel, the channel is      *)
(* requested, the completion initialised and the manager registered.    *)
ProbeInit ==
  /\ pc = "p_send"
  /\ phase = "probe"
  /\ info_flags = {}
  /\ ctype_flags = {}
  /\ fw_version = INVALID_FIRMWARE_VERSION
  /\ status = {}
  /\ lock = [ b \in Bufs |-> FALSE ]
  /\ done = 0
  /\ count = 0
  /\ off = 0
  /\ i = 0
  /\ ret = 0
  /\ sent = 0
  /\ wait_status = 0
  /\ timeout = 0
  /\ msg = NoMsg
  /\ outstanding = 0
  /\ cb = CbIdle
  /\ svc_done_calls = 0
  /\ consumedCompleted = FALSE
  /\ awaiting = FALSE
  /\ total = 0
  /\ subs = << >>
  /\ allBufferDone = TRUE
  /\ waited = 0
  /\ data = NoData
  /\ answered = {}
  /\ svc_buf = [ b \in Bufs |-> FALSE ]
  /\ dma_mapped = [ b \in Bufs |-> FALSE ]
  /\ is_smmu_enabled \in BOOLEAN
  /\ ops = << >>
  /\ snap = Pool
  /\ other = [ pc |-> "idle", i |-> 0, sent |-> 0 ]
  /\ cur = "t1"
  /\ fb_i = NUM_SVC_BUFS
  /\ num_free = 0
  /\ claimed = [ b \in Bufs |-> {} ]
  /\ freed = [ b \in Bufs |-> 0 ]
  /\ rm_i = NUM_SVC_BUFS
  /\ rec = "none"
  /\ cmds = << >>
  /\ held = {}
  /\ delivered = {}
  /\ obtained = [ b \in Bufs |-> 0 ]

(* s10_probe returns r through probe_err: stratix10_svc_free_channel. *)
ProbeFails(r) ==
  /\ pc' = "probe_failed"
  /\ phase' = "probe_failed"
  /\ ret' = r

(* ret = s10_svc_send_msg(priv, COMMAND_FIRMWARE_VERSION, NULL, 0,      *)
(* s10_fw_version_callback); a rejected send ends s10_probe.            *)
s10_probe_send ==
  /\ pc = "p_send"
  /\ \E r \in SvcSendResults :
       /\ s10_svc_send_msg("COMMAND_FIRMWARE_VERSION", {}, 0, r)
       /\ IF r # 0
          THEN /\ svc_done_calls' = svc_done_calls + 1
               /\ ProbeFails(r)
          ELSE /\ pc' = "p_wait"
               /\ ret' = r
               /\ UNCHANGED << phase, svc_done_calls >>
  /\ UNCHANGED << probeFrame, data, fw_version, lock, done, i, svc_buf, snap,
                  fb_i, num_free, freed, obtained >>

(* s10_fw_version_callback taking the version from every answer whose   *)
(* status has SVC_STATUS_OK set.                                        *)
s10_fw_version_callback_any_ok ==
  /\ phase = "probe"
  /\ outstanding > 0
  /\ outstanding' = outstanding - 1
  /\ \E w \in FwVersionWords, v \in FwReported :
       /\ data' = [ status |-> w, kaddr |-> NoData.kaddr ]
       /\ fw_version' = IF "OK" \in w THEN v ELSE fw_version
  /\ done' = done + 1
  /\ UNCHANGED << probeFrame, pc, phase, ret, lock, i, msg, svc_done_calls,
                  awaiting, svc_buf, snap, fb_i, num_free, freed, cmds,
                  obtained >>

(* s10_fw_version_callback: priv->fw_version = *version when            *)
(* data->status == BIT(SVC_STATUS_OK), a warning or an error message    *)
(* otherwise, then complete().                                          *)
s10_fw_version_callback ==
  /\ phase = "probe"
  /\ outstanding > 0
  /\ outstanding' = outstanding - 1
  /\ \E w \in FwVersionWords, v \in FwReported :
       /\ data' = [ status |-> w, kaddr |-> NoData.kaddr ]
       /\ fw_version' = IF w = { "OK" } THEN v ELSE fw_version
  /\ done' = done + 1
  /\ UNCHANGED << probeFrame, pc, phase, ret, lock, i, msg, svc_done_calls,
                  awaiting, svc_buf, snap, fb_i, num_free, freed, cmds,
                  obtained >>

(* wait_for_completion_timeout(.., S10_RECONFIG_TIMEOUT): a timeout     *)
(* ends s10_probe with -ETIMEDOUT, else ret = 0 and the allocation      *)
(* loop starts.                                                         *)
s10_probe_wait ==
  /\ pc = "p_wait"
  /\ IF done > 0
     THEN /\ done' = done - 1
          /\ pc' = "p_alloc"
          /\ ret' = 0
          /\ UNCHANGED << phase, svc_done_calls >>
     ELSE /\ svc_done_calls' = svc_done_calls + 1
          /\ ProbeFails(-Errno.ETIMEDOUT)
          /\ UNCHANGED done
  /\ i' = 0
  /\ awaiting' = FALSE
  /\ UNCHANGED << probeFrame, data, fw_version, lock, msg, outstanding,
                  svc_buf, snap, fb_i, num_free, freed, cmds, obtained >>

(* The allocation loop of s10_probe going to probe_err on IS_ERR(kbuf)  *)
(* without s10_free_buffers.                                            *)
s10_probe_alloc_no_free ==
  /\ pc = "p_alloc"
  /\ i < NUM_SVC_BUFS
  /\ \/ /\ svc_buf' = [ svc_buf EXCEPT ![i] = TRUE ]
        /\ lock' = [ lock EXCEPT ![i] = FALSE ]
        /\ obtained' = [ obtained EXCEPT ![i] = @ + 1 ]
        /\ i' = i + 1
        /\ UNCHANGED << pc, fb_i, num_free, snap >>
     \/ /\ pc' = "fb_returned"
        /\ UNCHANGED << svc_buf, lock, obtained, i, fb_i, num_free, snap >>
  /\ UNCHANGED << probeFrame, data, phase, ret, fw_version, done, msg,
                  outstanding, svc_done_calls, awaiting, freed, cmds >>

(* One iteration of the allocation loop of s10_probe:                   *)
(* stratix10_svc_allocate_memory returns memory, kept in svc_bufs[i]    *)
(* with lock = 0, or an error, and then s10_free_buffers is called.     *)
s10_probe_alloc ==
  /\ pc = "p_alloc"
  /\ i < NUM_SVC_BUFS
  /\ \/ /\ svc_buf' = [ svc_buf EXCEPT ![i] = TRUE ]
        /\ lock' = [ lock EXCEPT ![i] = FALSE ]
        /\ obtained' = [ obtained EXCEPT ![i] = @ + 1 ]
        /\ i' = i + 1
        /\ UNCHANGED << pc, fb_i, num_free, snap >>
     \/ /\ pc' = "s10_free_buffers"
        /\ fb_i' = 0
        /\ num_free' = 0
        /\ snap' = Pool
        /\ UNCHANGED << svc_buf, lock, obtained, i >>
  /\ UNCHANGED << probeFrame, data, phase, ret, fw_version, done, msg,
                  outstanding, svc_done_calls, awaiting, freed, cmds >>

(* After s10_free_buffers: ret = PTR_ERR(kbuf); goto probe_err. *)
s10_probe_err ==
  /\ pc = "fb_returned"
  /\ phase = "probe"
  /\ ProbeFails(-Errno.ENOMEM)
  /\ UNCHANGED << probeFrame, data, fw_version, lock, done, i, msg,
                  outstanding, svc_done_calls, awaiting, svc_buf, snap, fb_i,
                  num_free, freed, cmds, obtained >>

(* Every buffer is allocated: stratix10_svc_done,                       *)
(* platform_set_drvdata, return 0.  The device is bound.                *)
s10_probe_return ==
  /\ pc = "p_alloc"
  /\ i = NUM_SVC_BUFS
  /\ svc_done_calls' = svc_done_calls + 1
  /\ pc' = "idle"
  /\ phase' = "none"
  /\ ret' = 0
  /\ i' = 0
  /\ UNCHANGED << probeFrame, data, fw_version, lock, done, msg, outstanding,
                  awaiting, svc_buf, snap, fb_i, num_free, freed, cmds,
                  obtained >>

(* s10_receive_callback is the channel's receive_cb from the first      *)
(* request of a session on.                                             *)
ProbeCallbackStep == CallbackStep /\ phase # "probe"

(* The sessions are over and the device is about to be released; an     *)
(* aborted session may have left buffers locked, in flight at the       *)
(* remote.                                                              *)
DeviceRelease ==
  /\ pc = "idle"
  /\ cb = CbIdle
  /\ pc' = "tear"
  /\ phase' = "none"
  /\ \E l \in [ Bufs -> BOOLEAN ] :
       /\ lock' = l
       /\ dma_mapped' = [ b \in Bufs |-> is_smmu_enabled /\ l[b] ]
  /\ UNCHANGED << tearFrame, ret, svc_buf, snap, fb_i, num_free, claimed,
                  freed, rm_i >>

(* s10_remove is entered after s10_free_buffers has returned. *)
s10_remove_call_after_free ==
  /\ pc = "fb_returned"
  /\ phase = "none"
  /\ pc' = "s10_remove"
  /\ rm_i' = 0
  /\ snap' = Pool
  /\ UNCHANGED << tearFrame, phase, ret, lock, svc_buf, dma_mapped, fb_i,
                  num_free, claimed, freed >>

(* s10_free_buffers called on the bound device. *)
ProbeFreeAll == s10_free_buffers_call /\ phase = "none"

ProbeNext ==
  \/ s10_probe_send
  \/ s10_fw_version_callback
  \/ s10_probe_wait
  \/ s10_probe_alloc
  \/ s10_free_buffers_iter
  \/ s10_free_buffers_return
  \/ s10_probe_err
  \/ s10_probe_return
  \/ CallWriteInit
  \/ s10_ops_write_init_flags
  \/ s10_ops_write_init_reinit
  \/ s10_ops_write_init_send
  \/ s10_ops_write_init_wait
  \/ s10_ops_write_init_test_ok
  \/ s10_ops_write_init_locks
  \/ s10_ops_write_init_done
  \/ ProbeCallbackStep

(* The device from s10_probe through any number of s10_ops_write_init   *)
(* calls.                                                               *)
ProbeSpec == ProbeInit /\ [][ProbeNext]_vars

LifeNext ==
  \/ s10_probe_send
  \/ s10_fw_version_callback
  \/ s10_probe_wait
  \/ s10_probe_alloc
  \/ s10_probe_err
  \/ s10_probe_return
  \/ DeviceRelease
  \/ ProbeFreeAll
  \/ s10_free_buffers_iter
  \/ s10_free_buffers_return
  \/ TearRelease
  \/ s10_remove_call
  \/ s10_remove_call_after_free
  \/ s10_remove_iter
  \/ s10_remove_return

(* The buffers over the life of the device: s10_probe, then any number  *)
(* of s10_free_buffers calls, then s10_remove.                          *)
LifeSpec == ProbeInit /\ [][LifeNext]_vars

(* ------------------------------------------------------------------ *)
(* C34                                                                  *)
(* ------------------------------------------------------------------ *)

(* The answer to COMMAND_FIRMWARE_VERSION is handed to the callback. *)
VersionAnswered == phase = "probe" /\ data' # data

C38_BufferMemoryBalanced ==
  /\ \A b \in Bufs : freed[b] <= obtained[b] /\ obtained[b] <= 1
  /\ pc \notin { "s10_remove", "removed" }
       => \A b \in Bufs : svc_buf[b] <=> (obtained[b] = freed[b] + 1)
  /\ phase = "removed" => freed = obtained
  /\ phase = "probe_failed"
       => (freed = obtained /\ \A b \in Bufs : ~svc_buf[b])

(* C38 witness: s10_remove has returned after s10_free_buffers freed    *)
(* the first buffer and passed over the second, which was locked, and   *)
(* every buffer is freed once.                                          *)
C38_Witness ==
  /\ phase = "removed"
  /\ "s10_free_buffers" \in claimed[0]
  /\ claimed[1] = {}
  /\ \A b \in Bufs : obtained[b] = 1 /\ freed[b] = 1

====
